---- MODULE Spec2Model ----
(***************************************************************************)
(* WakeAssist firmware: the alarm escalation state machine                 *)
(* (alarm_controller.cpp) together with the part of the hardware           *)
(* abstraction it drives (hardware.cpp).                                   *)
(*                                                                         *)
(* Every C++ function is an operator of the same name that maps a "world"  *)
(* record  [ac, hw, out, ret]  to the world after the call:                *)
(*   ac  - the members of AlarmController (plus the function-local static  *)
(*         lastCheck of update()),                                         *)
(*   hw  - the members of Hardware and the levels it has written to the    *)
(*         PWM channels and to the alarm LED pin,                          *)
(*   out - the externally visible effects of the call in program order,    *)
(*   ret - the value the call returns.                                     *)
(* millis() is the parameter t, telegramBot.isOnline() the parameter       *)
(* online.  A call other than testAlarm() is taken to read one clock value.*)
(***************************************************************************)
EXTENDS Integers, Sequences, FiniteSets, TLC

\* ---------------------------------------------------------------- config.h
BUTTON_DEBOUNCE_MS == 50
RESET_HOLD_TIME_MS == 10000
LED_BLINK_SLOW == 1000
LED_BLINK_MEDIUM == 500
LED_BLINK_FAST == 200
ALARM_WARNING_DURATION_MS == 30000
ALARM_ALERT_DURATION_MS == 30000
ALARM_SAFETY_TIMEOUT_MS == 300000
ALARM_TRIGGERED_DELAY_MS == 3000
BUZZER_OFF == 0
BUZZER_ON == 255
BUZZER_PULSE_ON_MS == 500
BUZZER_PULSE_OFF_MS == 500
HW_CHECK_INTERVAL_MS == 10000

\* ------------------------------------------------------------ enumerations
AlarmState ==
    {"ALARM_IDLE", "ALARM_TRIGGERED", "ALARM_WARNING", "ALARM_ALERT",
     "ALARM_EMERGENCY", "ALARM_STOPPED_USER", "ALARM_STOPPED_TIMEOUT",
     "ALARM_STOPPED_ERROR"}

AlarmStopSource ==
    {"STOP_NONE", "STOP_TELEGRAM_COMMAND", "STOP_SILENCE_BUTTON",
     "STOP_SAFETY_TIMEOUT", "STOP_HARDWARE_ERROR", "STOP_COMPLETED"}

HardwareStatus ==
    {"HW_STATUS_UNKNOWN", "HW_STATUS_OK", "HW_STATUS_FAILED", "HW_STATUS_DISABLED"}

\* ------------------------------------------------- unsigned long arithmetic
\* millis() and every timestamp are 32-bit unsigned.  2^32 itself is outside
\* the range of the integers used here, so a difference  a - b  (mod 2^32) is
\* never formed as a number when b > a; the two uses the code makes of such a
\* difference are given instead.

\* UINT32_MAX is written as the 32-bit pattern of all ones read as signed
UINT32_MAX == -1

\* (a - b) mod 2^32 >= thr, for thr = UINT32_MAX or 0 <= thr < 2^31,
\* and clock values a, b in 0 .. 2^31 - 1
Elapsed32GE(a, b, thr) ==
    IF thr = UINT32_MAX THEN a - b = -1
    ELSE IF a >= b THEN a - b >= thr
    ELSE TRUE   \* a - b + 2^32 > 2^31 > thr

\* ((a - b) mod 2^32) / 1000;  2^32 = 4294967 * 1000 + 296
Elapsed32Seconds(a, b) ==
    IF a >= b THEN (a - b) \div 1000
    ELSE 4294967 + ((296 - (b - a)) \div 1000)

\* ============================================================ hardware.cpp

\* the trace entry of one externally visible effect
Effect(kind, val) == <<kind, val>>

setSmallBuzzer(w, dutyCycle) ==
    [w EXCEPT !.hw.smallDuty = dutyCycle,
              !.out = Append(@, Effect("smallBuzzer", dutyCycle))]

setLargeBuzzer(w, dutyCycle) ==
    [w EXCEPT !.hw.largeDuty = dutyCycle,
              !.out = Append(@, Effect("largeBuzzer", dutyCycle))]

\* a stopAllBuzzers that forgets the small buzzer
stopAllBuzzers_largeOnly(w) == setLargeBuzzer(w, 0)

stopAllBuzzers(w) == setLargeBuzzer(setSmallBuzzer(w, 0), 0)

\* the return value (pattern complete) is left in ret
pulseSmallBuzzer(w, t) ==
    LET w1 == IF w.hw.pulseStartTime = 0
              THEN setSmallBuzzer(
                     [w EXCEPT !.hw.pulseStartTime = t,
                               !.hw.lastPulseToggle = t,
                               !.hw.pulseState = TRUE], BUZZER_ON)
              ELSE w
    IN  IF Elapsed32GE(t, w1.hw.pulseStartTime, ALARM_WARNING_DURATION_MS)
        THEN [stopAllBuzzers(w1) EXCEPT !.hw.pulseStartTime = 0, !.ret = TRUE]
        ELSE IF w1.hw.pulseState
             THEN IF Elapsed32GE(t, w1.hw.lastPulseToggle, BUZZER_PULSE_ON_MS)
                  THEN [setSmallBuzzer(w1, BUZZER_OFF)
                          EXCEPT !.hw.pulseState = FALSE,
                                 !.hw.lastPulseToggle = t, !.ret = FALSE]
                  ELSE [w1 EXCEPT !.ret = FALSE]
             ELSE IF Elapsed32GE(t, w1.hw.lastPulseToggle, BUZZER_PULSE_OFF_MS)
                  THEN [setSmallBuzzer(w1, BUZZER_ON)
                          EXCEPT !.hw.pulseState = TRUE,
                                 !.hw.lastPulseToggle = t, !.ret = FALSE]
                  ELSE [w1 EXCEPT !.ret = FALSE]

setAlarmLED(w, level) ==
    IF ~w.hw.state.ledsEnabled THEN w
    ELSE [w EXCEPT !.hw.alarmLedPin = level,
                   !.hw.alarmLED.enabled = FALSE,
                   !.out = Append(@, Effect("alarmLED", level))]

blinkAlarmLED(w, interval, t) ==
    [w EXCEPT !.hw.alarmLED.enabled = TRUE,
              !.hw.alarmLED.interval = interval,
              !.hw.alarmLED.lastToggle = t,
              !.out = Append(@, Effect("blinkAlarmLED", interval))]

\* ledcWrite on, delay(durationMs), ledcWrite off
testBuzzer(w, small) ==
    IF small
    THEN [w EXCEPT !.hw.smallDuty = BUZZER_OFF,
                   !.out = @ \o <<Effect("smallBuzzer", BUZZER_ON),
                                  Effect("smallBuzzer", BUZZER_OFF)>>]
    ELSE [w EXCEPT !.hw.largeDuty = BUZZER_OFF,
                   !.out = @ \o <<Effect("largeBuzzer", BUZZER_ON),
                                  Effect("largeBuzzer", BUZZER_OFF)>>]

\* the pins read back smallOK / largeOK
checkBuzzerCircuits(w, smallOK, largeOK) ==
    [w EXCEPT !.hw.state.smallBuzzer =
                  IF smallOK THEN "HW_STATUS_OK" ELSE "HW_STATUS_FAILED",
              !.hw.state.largeBuzzer =
                  IF largeOK THEN "HW_STATUS_OK" ELSE "HW_STATUS_FAILED",
              !.ret = smallOK /\ largeOK]

\* a debounceButton() that accepts every reading at once
debounceButton_immediate(rawState, buttonState, t) ==
    [lastReading |-> rawState, stableState |-> rawState,
     lastChange |-> IF rawState # buttonState.lastReading
                    THEN t ELSE buttonState.lastChange]

\* the ButtonState after debounceButton(rawState, buttonState) at clock t;
\* the value returned is its stableState
debounceButton(rawState, buttonState, t) ==
    LET b1 == IF rawState # buttonState.lastReading
              THEN [buttonState EXCEPT !.lastChange = t, !.lastReading = rawState]
              ELSE buttonState
    IN  IF /\ Elapsed32GE(t, b1.lastChange, BUTTON_DEBOUNCE_MS + 1)
           /\ rawState # b1.stableState
        THEN [b1 EXCEPT !.stableState = rawState]
        ELSE b1

\* the three pins read testRaw, silenceRaw, resetRaw (TRUE = pressed)
updateButtons(w, testRaw, silenceRaw, resetRaw, t) ==
    LET tb == debounceButton(testRaw, w.hw.testButton, t)
        sb == debounceButton(silenceRaw, w.hw.silenceButton, t)
        rb == debounceButton(resetRaw, w.hw.resetButton, t)
    IN  [w EXCEPT !.hw.testButton = tb,
                  !.hw.silenceButton = sb,
                  !.hw.resetButton = rb,
                  !.hw.state.buttonTest = tb.stableState,
                  !.hw.state.buttonSilence = sb.stableState,
                  !.hw.state.buttonReset = rb.stableState,
                  !.hw.state.resetButtonPressTime =
                      IF rb.stableState
                      THEN IF @ = 0 THEN t ELSE @
                      ELSE 0]

isFactoryResetRequested(w, t) ==
    IF w.hw.state.resetButtonPressTime = 0 THEN FALSE
    ELSE Elapsed32GE(t, w.hw.state.resetButtonPressTime, RESET_HOLD_TIME_MS)

\* updateSingleLED(alarmLED, PIN_LED_ALARM); the WiFi and status LEDs are
\* driven the same way and are not part of the model
\* an updateSingleLED that keeps the period anchored to the toggle that was
\* due (and so catches up after a late poll)
updateSingleLED_catchUp(w, t) ==
    IF ~w.hw.alarmLED.enabled THEN w
    ELSE IF Elapsed32GE(t, w.hw.alarmLED.lastToggle, w.hw.alarmLED.interval)
    THEN [w EXCEPT !.hw.alarmLED.currentState = ~@,
                   !.hw.alarmLedPin = ~w.hw.alarmLED.currentState,
                   !.hw.alarmLED.lastToggle = @ + w.hw.alarmLED.interval,
                   !.out = Append(@, Effect("alarmLedPin", ~w.hw.alarmLED.currentState))]
    ELSE w

updateSingleLED(w, t) ==
    IF ~w.hw.alarmLED.enabled THEN w
    ELSE IF Elapsed32GE(t, w.hw.alarmLED.lastToggle, w.hw.alarmLED.interval)
    THEN [w EXCEPT !.hw.alarmLED.currentState = ~@,
                   !.hw.alarmLedPin = ~w.hw.alarmLED.currentState,
                   !.hw.alarmLED.lastToggle = t,
                   !.out = Append(@, Effect("alarmLedPin", ~w.hw.alarmLED.currentState))]
    ELSE w

updateLEDs(w, t) ==
    IF ~w.hw.state.ledsEnabled THEN w ELSE updateSingleLED(w, t)

\* ==================================================== alarm_controller.cpp

\* notification texts (config.h MSG_*); MSG_ALARM_STOPPED carries the
\* formatted duration and source
Msg(text) == <<text, 0, "">>
StoppedMsg(duration, sourceStr) == <<"MSG_ALARM_STOPPED", duration, sourceStr>>

ZeroStatistics ==
    [startTime |-> 0, stopTime |-> 0, duration |-> 0,
     stopSource |-> "STOP_NONE", maxStageReached |-> "ALARM_IDLE",
     hardwareIssueDetected |-> FALSE]

\* an isActive() that does not count Triggered as active
isActive_fromWarning(w) ==
    /\ w.ac.currentState # "ALARM_IDLE"
    /\ w.ac.currentState # "ALARM_TRIGGERED"
    /\ w.ac.currentState # "ALARM_STOPPED_USER"
    /\ w.ac.currentState # "ALARM_STOPPED_TIMEOUT"
    /\ w.ac.currentState # "ALARM_STOPPED_ERROR"

isActive(w) ==
    /\ w.ac.currentState # "ALARM_IDLE"
    /\ w.ac.currentState # "ALARM_STOPPED_USER"
    /\ w.ac.currentState # "ALARM_STOPPED_TIMEOUT"
    /\ w.ac.currentState # "ALARM_STOPPED_ERROR"

\* a sendTelegramNotification() that remembers a notification it could not
\* deliver
sendTelegramNotification_remembers(w, message, online) ==
    LET w1 == [w EXCEPT !.out = Append(@, Effect("notify", message))]
    IN  IF ~w.ac.telegramNotificationsEnabled THEN w1
        ELSE IF ~online
        THEN [w1 EXCEPT !.ac.lastHardwareError = "Telegram offline"]
        ELSE [w1 EXCEPT !.out = Append(@, Effect("sendMessage", message))]

sendTelegramNotification(w, message, online) ==
    LET w1 == [w EXCEPT !.out = Append(@, Effect("notify", message))]
    IN  IF ~w.ac.telegramNotificationsEnabled THEN w1
        ELSE IF ~online THEN w1
        ELSE [w1 EXCEPT !.out = Append(@, Effect("sendMessage", message))]

transitionToState(w, newState, t, online) ==
    IF newState = w.ac.currentState THEN w
    ELSE
      LET w1 == [w EXCEPT !.ac.previousState = w.ac.currentState,
                          !.ac.currentState = newState,
                          !.ac.stageStartTime = t,
                          !.out = Append(@, Effect("state", newState))]
      IN  CASE newState = "ALARM_IDLE" ->
                 setAlarmLED(stopAllBuzzers(w1), FALSE)
            [] newState = "ALARM_TRIGGERED" ->
                 setAlarmLED(w1, TRUE)
            [] newState = "ALARM_WARNING" ->
                 blinkAlarmLED(
                   sendTelegramNotification(w1, Msg("MSG_WARNING_STARTED"), online),
                   LED_BLINK_SLOW, t)
            [] newState = "ALARM_ALERT" ->
                 blinkAlarmLED(
                   sendTelegramNotification(w1, Msg("MSG_ALERT_STARTED"), online),
                   LED_BLINK_MEDIUM, t)
            [] newState = "ALARM_EMERGENCY" ->
                 blinkAlarmLED(
                   sendTelegramNotification(w1, Msg("MSG_EMERGENCY_STARTED"), online),
                   LED_BLINK_FAST, t)
            [] OTHER -> w1

getStateDuration(state) ==
    CASE state = "ALARM_TRIGGERED" -> ALARM_TRIGGERED_DELAY_MS
      [] state = "ALARM_WARNING" -> ALARM_WARNING_DURATION_MS
      [] state = "ALARM_ALERT" -> ALARM_ALERT_DURATION_MS
      [] state = "ALARM_EMERGENCY" -> UINT32_MAX
      [] OTHER -> 0

\* an isStageDurationExceeded() that compares with > instead of >=
isStageDurationExceeded_strict(w, t) ==
    Elapsed32GE(t, w.ac.stageStartTime, getStateDuration(w.ac.currentState) + 1)

\* called in Triggered, Warning and Alert only
isStageDurationExceeded(w, t) ==
    Elapsed32GE(t, w.ac.stageStartTime, getStateDuration(w.ac.currentState))

isSafetyTimeoutReached(w, t) ==
    IF w.ac.alarmStartTime = 0 THEN FALSE
    ELSE Elapsed32GE(t, w.ac.alarmStartTime, ALARM_SAFETY_TIMEOUT_MS)

updateBuzzerOutput(w, t) ==
    CASE w.ac.currentState = "ALARM_WARNING" ->
           [pulseSmallBuzzer(w, t) EXCEPT !.ret = w.ret]
      [] w.ac.currentState = "ALARM_ALERT" -> setSmallBuzzer(w, BUZZER_ON)
      [] w.ac.currentState = "ALARM_EMERGENCY" -> setLargeBuzzer(w, BUZZER_ON)
      [] OTHER -> w

\* a checkHardwareHealth() without the final both-failed test
checkHardwareHealth_stageOnly(w, online) ==
    LET hwState == w.hw.state
        cur == w.ac.currentState
    IN  IF /\ cur \in {"ALARM_WARNING", "ALARM_ALERT"}
           /\ hwState.smallBuzzer = "HW_STATUS_FAILED"
        THEN [sendTelegramNotification(
                [w EXCEPT !.ac.lastHardwareError = "Small buzzer circuit failure"],
                Msg("MSG_ERROR_BUZZER_SMALL"), online) EXCEPT !.ret = FALSE]
        ELSE IF /\ cur = "ALARM_EMERGENCY"
                /\ hwState.largeBuzzer = "HW_STATUS_FAILED"
        THEN [sendTelegramNotification(
                [w EXCEPT !.ac.lastHardwareError = "Large buzzer circuit failure"],
                Msg("MSG_ERROR_BUZZER_LARGE"), online) EXCEPT !.ret = FALSE]
        ELSE [w EXCEPT !.ret = TRUE]

\* a checkHardwareHealth() that looks at the small buzzer in Alert only
checkHardwareHealth_alertOnly(w, online) ==
    LET hwState == w.hw.state
        cur == w.ac.currentState
    IN  IF /\ cur = "ALARM_ALERT"
           /\ hwState.smallBuzzer = "HW_STATUS_FAILED"
        THEN [sendTelegramNotification(
                [w EXCEPT !.ac.lastHardwareError = "Small buzzer circuit failure"],
                Msg("MSG_ERROR_BUZZER_SMALL"), online) EXCEPT !.ret = FALSE]
        ELSE IF /\ cur = "ALARM_EMERGENCY"
                /\ hwState.largeBuzzer = "HW_STATUS_FAILED"
        THEN [sendTelegramNotification(
                [w EXCEPT !.ac.lastHardwareError = "Large buzzer circuit failure"],
                Msg("MSG_ERROR_BUZZER_LARGE"), online) EXCEPT !.ret = FALSE]
        ELSE IF /\ hwState.smallBuzzer = "HW_STATUS_FAILED"
                /\ hwState.largeBuzzer = "HW_STATUS_FAILED"
        THEN [sendTelegramNotification(
                [w EXCEPT !.ac.lastHardwareError = "Both buzzer circuits failed"],
                Msg("MSG_ERROR_BOTH_BUZZERS"), online) EXCEPT !.ret = FALSE]
        ELSE [w EXCEPT !.ret = TRUE]

\* a health check that forgets a fault once it has reported it
checkHardwareHealth_forgets(w, online) ==
    LET hwState == w.hw.state
        cur == w.ac.currentState
    IN  IF /\ cur \in {"ALARM_WARNING", "ALARM_ALERT"}
           /\ hwState.smallBuzzer = "HW_STATUS_FAILED"
        THEN [sendTelegramNotification(
                [w EXCEPT !.ac.lastHardwareError = "Small buzzer circuit failure",
                          !.hw.state.smallBuzzer = "HW_STATUS_UNKNOWN"],
                Msg("MSG_ERROR_BUZZER_SMALL"), online) EXCEPT !.ret = FALSE]
        ELSE IF /\ cur = "ALARM_EMERGENCY"
                /\ hwState.largeBuzzer = "HW_STATUS_FAILED"
        THEN [sendTelegramNotification(
                [w EXCEPT !.ac.lastHardwareError = "Large buzzer circuit failure",
                          !.hw.state.largeBuzzer = "HW_STATUS_UNKNOWN"],
                Msg("MSG_ERROR_BUZZER_LARGE"), online) EXCEPT !.ret = FALSE]
        ELSE IF /\ hwState.smallBuzzer = "HW_STATUS_FAILED"
                /\ hwState.largeBuzzer = "HW_STATUS_FAILED"
        THEN [sendTelegramNotification(
                [w EXCEPT !.ac.lastHardwareError = "Both buzzer circuits failed"],
                Msg("MSG_ERROR_BOTH_BUZZERS"), online) EXCEPT !.ret = FALSE]
        ELSE [w EXCEPT !.ret = TRUE]

\* the verdict (TRUE = healthy) is left in ret
checkHardwareHealth(w, online) ==
    LET hwState == w.hw.state
        cur == w.ac.currentState
    IN  IF /\ cur \in {"ALARM_WARNING", "ALARM_ALERT"}
           /\ hwState.smallBuzzer = "HW_STATUS_FAILED"
        THEN [sendTelegramNotification(
                [w EXCEPT !.ac.lastHardwareError = "Small buzzer circuit failure"],
                Msg("MSG_ERROR_BUZZER_SMALL"), online) EXCEPT !.ret = FALSE]
        ELSE IF /\ cur = "ALARM_EMERGENCY"
                /\ hwState.largeBuzzer = "HW_STATUS_FAILED"
        THEN [sendTelegramNotification(
                [w EXCEPT !.ac.lastHardwareError = "Large buzzer circuit failure"],
                Msg("MSG_ERROR_BUZZER_LARGE"), online) EXCEPT !.ret = FALSE]
        ELSE IF /\ hwState.smallBuzzer = "HW_STATUS_FAILED"
                /\ hwState.largeBuzzer = "HW_STATUS_FAILED"
        THEN [sendTelegramNotification(
                [w EXCEPT !.ac.lastHardwareError = "Both buzzer circuits failed"],
                Msg("MSG_ERROR_BOTH_BUZZERS"), online) EXCEPT !.ret = FALSE]
        ELSE [w EXCEPT !.ret = TRUE]

\* a calculateStatistics() that rounds the duration to the nearest second
calculateStatistics_rounded(w, source, t) ==
    [w EXCEPT !.ac.lastStatistics =
                 [startTime |-> w.ac.alarmStartTime,
                  stopTime |-> t,
                  duration |-> Elapsed32Seconds(t + 500, w.ac.alarmStartTime),
                  stopSource |-> source,
                  maxStageReached |-> w.ac.currentState,
                  hardwareIssueDetected |-> (source = "STOP_HARDWARE_ERROR")],
              !.out = Append(@, Effect("statistics", source))]

\* a calculateStatistics() that takes the start of the stage for the start
\* of the alarm
calculateStatistics_stageStart(w, source, t) ==
    [w EXCEPT !.ac.lastStatistics =
                 [startTime |-> w.ac.stageStartTime,
                  stopTime |-> t,
                  duration |-> Elapsed32Seconds(t, w.ac.stageStartTime),
                  stopSource |-> source,
                  maxStageReached |-> w.ac.currentState,
                  hardwareIssueDetected |-> (source = "STOP_HARDWARE_ERROR")],
              !.out = Append(@, Effect("statistics", source))]

calculateStatistics(w, source, t) ==
    [w EXCEPT !.ac.lastStatistics =
                 [startTime |-> w.ac.alarmStartTime,
                  stopTime |-> t,
                  duration |-> Elapsed32Seconds(t, w.ac.alarmStartTime),
                  stopSource |-> source,
                  maxStageReached |-> w.ac.currentState,
                  hardwareIssueDetected |-> (source = "STOP_HARDWARE_ERROR")],
              !.out = Append(@, Effect("statistics", source))]

\* a start() without the isActive() guard
start_unguarded(w, t, online) ==
    LET w1 == [w EXCEPT !.ac.alarmStartTime = t, !.ac.testMode = FALSE]
        w2 == transitionToState(w1, "ALARM_TRIGGERED", t, online)
        w3 == sendTelegramNotification(w2, Msg("MSG_WAKE_RECEIVED"), online)
    IN  [w3 EXCEPT !.ret = TRUE]

\* a start() that also wipes the statistics of the last session
start_clearsStatistics(w, t, online) ==
    IF isActive(w) THEN [w EXCEPT !.ret = FALSE]
    ELSE
      LET w1 == [w EXCEPT !.ac.alarmStartTime = t, !.ac.testMode = FALSE,
                          !.ac.lastStatistics = ZeroStatistics]
          w2 == transitionToState(w1, "ALARM_TRIGGERED", t, online)
          w3 == sendTelegramNotification(w2, Msg("MSG_WAKE_RECEIVED"), online)
      IN  [w3 EXCEPT !.ret = TRUE]

start(w, t, online) ==
    IF isActive(w) THEN [w EXCEPT !.ret = FALSE]
    ELSE
      LET w1 == [w EXCEPT !.ac.alarmStartTime = t, !.ac.testMode = FALSE]
          w2 == transitionToState(w1, "ALARM_TRIGGERED", t, online)
          w3 == sendTelegramNotification(w2, Msg("MSG_WAKE_RECEIVED"), online)
      IN  [w3 EXCEPT !.ret = TRUE]

\* a stop() that computes the statistics before it silences the buzzers
stop_statisticsFirst(w, source, t, online) ==
    IF ~isActive(w) THEN [w EXCEPT !.ret = FALSE]
    ELSE
      LET w0 == [w EXCEPT !.out = Append(@, Effect("stop", source))]
          w1 == calculateStatistics(w0, source, t)
          w2 == stopAllBuzzers(w1)
          stopState ==
              CASE source = "STOP_SAFETY_TIMEOUT" -> "ALARM_STOPPED_TIMEOUT"
                [] source = "STOP_HARDWARE_ERROR" -> "ALARM_STOPPED_ERROR"
                [] OTHER -> "ALARM_STOPPED_USER"
          sourceStr ==
              IF source = "STOP_TELEGRAM_COMMAND" THEN "Telegram"
              ELSE IF source = "STOP_SILENCE_BUTTON" THEN "Button"
              ELSE "Unknown"
          w3 == CASE source = "STOP_SAFETY_TIMEOUT" ->
                       sendTelegramNotification(w2, Msg("MSG_ALARM_TIMEOUT"), online)
                  [] source = "STOP_HARDWARE_ERROR" -> w2
                  [] OTHER ->
                       sendTelegramNotification(
                         w2, StoppedMsg(w2.ac.lastStatistics.duration, sourceStr),
                         online)
          w4 == transitionToState(w3, stopState, t, online)
          w5 == transitionToState(w4, "ALARM_IDLE", t, online)
      IN  [w5 EXCEPT !.ret = TRUE]

\* a stop() that records the statistics before it looks at isActive()
stop_statisticsBeforeGuard(w, source, t, online) ==
    IF ~isActive(w)
    THEN [w EXCEPT !.ret = FALSE,
                   !.ac = calculateStatistics(w, source, t).ac]
    ELSE
      LET w0 == [w EXCEPT !.out = Append(@, Effect("stop", source))]
          w1 == stopAllBuzzers(w0)
          w2 == calculateStatistics(w1, source, t)
          stopState ==
              CASE source = "STOP_SAFETY_TIMEOUT" -> "ALARM_STOPPED_TIMEOUT"
                [] source = "STOP_HARDWARE_ERROR" -> "ALARM_STOPPED_ERROR"
                [] OTHER -> "ALARM_STOPPED_USER"
          sourceStr ==
              IF source = "STOP_TELEGRAM_COMMAND" THEN "Telegram"
              ELSE IF source = "STOP_SILENCE_BUTTON" THEN "Button"
              ELSE "Unknown"
          w3 == CASE source = "STOP_SAFETY_TIMEOUT" ->
                       sendTelegramNotification(w2, Msg("MSG_ALARM_TIMEOUT"), online)
                  [] source = "STOP_HARDWARE_ERROR" -> w2
                  [] OTHER ->
                       sendTelegramNotification(
                         w2, StoppedMsg(w2.ac.lastStatistics.duration, sourceStr),
                         online)
          w4 == transitionToState(w3, stopState, t, online)
          w5 == transitionToState(w4, "ALARM_IDLE", t, online)
      IN  [w5 EXCEPT !.ret = TRUE]

\* a stop() that stays in the Stopped* state
stop_staysStopped(w, source, t, online) ==
    IF ~isActive(w) THEN [w EXCEPT !.ret = FALSE]
    ELSE
      LET w0 == [w EXCEPT !.out = Append(@, Effect("stop", source))]
          w1 == stopAllBuzzers(w0)
          w2 == calculateStatistics(w1, source, t)
          stopState ==
              CASE source = "STOP_SAFETY_TIMEOUT" -> "ALARM_STOPPED_TIMEOUT"
                [] source = "STOP_HARDWARE_ERROR" -> "ALARM_STOPPED_ERROR"
                [] OTHER -> "ALARM_STOPPED_USER"
          sourceStr ==
              IF source = "STOP_TELEGRAM_COMMAND" THEN "Telegram"
              ELSE IF source = "STOP_SILENCE_BUTTON" THEN "Button"
              ELSE "Unknown"
          w3 == CASE source = "STOP_SAFETY_TIMEOUT" ->
                       sendTelegramNotification(w2, Msg("MSG_ALARM_TIMEOUT"), online)
                  [] source = "STOP_HARDWARE_ERROR" -> w2
                  [] OTHER ->
                       sendTelegramNotification(
                         w2, StoppedMsg(w2.ac.lastStatistics.duration, sourceStr),
                         online)
          w4 == transitionToState(w3, stopState, t, online)
      IN  [w4 EXCEPT !.ret = TRUE]

\* a stop() whose notification switch has no case for STOP_HARDWARE_ERROR
stop_errorAsUser(w, source, t, online) ==
    IF ~isActive(w) THEN [w EXCEPT !.ret = FALSE]
    ELSE
      LET w0 == [w EXCEPT !.out = Append(@, Effect("stop", source))]
          w1 == stopAllBuzzers(w0)
          w2 == calculateStatistics(w1, source, t)
          stopState ==
              CASE source = "STOP_SAFETY_TIMEOUT" -> "ALARM_STOPPED_TIMEOUT"
                [] source = "STOP_HARDWARE_ERROR" -> "ALARM_STOPPED_ERROR"
                [] OTHER -> "ALARM_STOPPED_USER"
          sourceStr ==
              IF source = "STOP_TELEGRAM_COMMAND" THEN "Telegram"
              ELSE IF source = "STOP_SILENCE_BUTTON" THEN "Button"
              ELSE "Unknown"
          w3 == CASE source = "STOP_SAFETY_TIMEOUT" ->
                       sendTelegramNotification(w2, Msg("MSG_ALARM_TIMEOUT"), online)
                    [] OTHER ->
                       sendTelegramNotification(
                         w2, StoppedMsg(w2.ac.lastStatistics.duration, sourceStr),
                         online)
          w4 == transitionToState(w3, stopState, t, online)
          w5 == transitionToState(w4, "ALARM_IDLE", t, online)
      IN  [w5 EXCEPT !.ret = TRUE]

stop(w, source, t, online) ==
    IF ~isActive(w) THEN [w EXCEPT !.ret = FALSE]
    ELSE
      LET w0 == [w EXCEPT !.out = Append(@, Effect("stop", source))]
          w1 == stopAllBuzzers(w0)
          w2 == calculateStatistics(w1, source, t)
          stopState ==
              CASE source = "STOP_SAFETY_TIMEOUT" -> "ALARM_STOPPED_TIMEOUT"
                [] source = "STOP_HARDWARE_ERROR" -> "ALARM_STOPPED_ERROR"
                [] OTHER -> "ALARM_STOPPED_USER"
          sourceStr ==
              IF source = "STOP_TELEGRAM_COMMAND" THEN "Telegram"
              ELSE IF source = "STOP_SILENCE_BUTTON" THEN "Button"
              ELSE "Unknown"
          w3 == CASE source = "STOP_SAFETY_TIMEOUT" ->
                       sendTelegramNotification(w2, Msg("MSG_ALARM_TIMEOUT"), online)
                  [] source = "STOP_HARDWARE_ERROR" -> w2
                  [] OTHER ->
                       sendTelegramNotification(
                         w2, StoppedMsg(w2.ac.lastStatistics.duration, sourceStr),
                         online)
          w4 == transitionToState(w3, stopState, t, online)
          w5 == transitionToState(w4, "ALARM_IDLE", t, online)
      IN  [w5 EXCEPT !.ret = TRUE]

updateIdleState(w) == w

updateTriggeredState(w, t, online) ==
    IF isStageDurationExceeded(w, t)
    THEN transitionToState(w, "ALARM_WARNING", t, online)
    ELSE w

updateWarningState(w, t, online) ==
    LET w1 == updateBuzzerOutput(w, t)
    IN  IF isStageDurationExceeded(w1, t)
        THEN transitionToState(w1, "ALARM_ALERT", t, online)
        ELSE w1

updateAlertState(w, t, online) ==
    LET w1 == updateBuzzerOutput(w, t)
    IN  IF isStageDurationExceeded(w1, t)
        THEN transitionToState(w1, "ALARM_EMERGENCY", t, online)
        ELSE w1

updateEmergencyState(w, t) == updateBuzzerOutput(w, t)

\* an update() that runs the health check on every call
update_unlimited(w, t, online) ==
    LET cur == w.ac.currentState
        w1 == CASE cur = "ALARM_IDLE" -> updateIdleState(w)
                [] cur = "ALARM_TRIGGERED" -> updateTriggeredState(w, t, online)
                [] cur = "ALARM_WARNING" -> updateWarningState(w, t, online)
                [] cur = "ALARM_ALERT" -> updateAlertState(w, t, online)
                [] cur = "ALARM_EMERGENCY" -> updateEmergencyState(w, t)
                [] OTHER -> w
        w2 == IF isActive(w1) /\ isSafetyTimeoutReached(w1, t)
              THEN stop(w1, "STOP_SAFETY_TIMEOUT", t, online)
              ELSE w1
        w3 == IF isActive(w2) /\ w2.ac.hardwareChecksEnabled
              THEN IF TRUE
                   THEN LET w2a == [w2 EXCEPT !.ac.lastCheck = t,
                                             !.out = Append(@, Effect("check", t))]
                            w2b == checkHardwareHealth(w2a, online)
                        IN  IF ~w2b.ret
                            THEN stop(w2b, "STOP_HARDWARE_ERROR", t, online)
                            ELSE w2b
                   ELSE w2
              ELSE w2
    IN  [w3 EXCEPT !.ret = TRUE]

\* an update() that runs the periodic check whether or not it is enabled
update_checksAlways(w, t, online) ==
    LET cur == w.ac.currentState
        w1 == CASE cur = "ALARM_IDLE" -> updateIdleState(w)
                [] cur = "ALARM_TRIGGERED" -> updateTriggeredState(w, t, online)
                [] cur = "ALARM_WARNING" -> updateWarningState(w, t, online)
                [] cur = "ALARM_ALERT" -> updateAlertState(w, t, online)
                [] cur = "ALARM_EMERGENCY" -> updateEmergencyState(w, t)
                [] OTHER -> w
        w2 == IF isActive(w1) /\ isSafetyTimeoutReached(w1, t)
              THEN stop(w1, "STOP_SAFETY_TIMEOUT", t, online)
              ELSE w1
        w3 == IF isActive(w2)
              THEN IF Elapsed32GE(t, w2.ac.lastCheck, HW_CHECK_INTERVAL_MS)
                   THEN LET w2a == [w2 EXCEPT !.ac.lastCheck = t,
                                             !.out = Append(@, Effect("check", t))]
                            w2b == checkHardwareHealth(w2a, online)
                        IN  IF ~w2b.ret
                            THEN stop(w2b, "STOP_HARDWARE_ERROR", t, online)
                            ELSE w2b
                   ELSE w2
              ELSE w2
    IN  [w3 EXCEPT !.ret = TRUE]

update(w, t, online) ==
    LET cur == w.ac.currentState
        w1 == CASE cur = "ALARM_IDLE" -> updateIdleState(w)
                [] cur = "ALARM_TRIGGERED" -> updateTriggeredState(w, t, online)
                [] cur = "ALARM_WARNING" -> updateWarningState(w, t, online)
                [] cur = "ALARM_ALERT" -> updateAlertState(w, t, online)
                [] cur = "ALARM_EMERGENCY" -> updateEmergencyState(w, t)
                [] OTHER -> w
        w2 == IF isActive(w1) /\ isSafetyTimeoutReached(w1, t)
              THEN stop(w1, "STOP_SAFETY_TIMEOUT", t, online)
              ELSE w1
        w3 == IF isActive(w2) /\ w2.ac.hardwareChecksEnabled
              THEN IF Elapsed32GE(t, w2.ac.lastCheck, HW_CHECK_INTERVAL_MS)
                   THEN LET w2a == [w2 EXCEPT !.ac.lastCheck = t,
                                             !.out = Append(@, Effect("check", t))]
                            w2b == checkHardwareHealth(w2a, online)
                        IN  IF ~w2b.ret
                            THEN stop(w2b, "STOP_HARDWARE_ERROR", t, online)
                            ELSE w2b
                   ELSE w2
              ELSE w2
    IN  [w3 EXCEPT !.ret = TRUE]

\* called in any state
getTimeRemainingInStage(w, t) ==
    IF ~isActive(w) THEN 0
    ELSE LET elapsed == Elapsed32Seconds(t, w.ac.stageStartTime)
             duration == IF w.ac.currentState = "ALARM_EMERGENCY"
                         THEN 4294967
                         ELSE getStateDuration(w.ac.currentState) \div 1000
         IN  IF elapsed >= duration THEN 0 ELSE duration - elapsed

getDuration(w, t) ==
    IF w.ac.alarmStartTime = 0 THEN 0
    ELSE Elapsed32Seconds(t, w.ac.alarmStartTime)

getLastStatistics(w) == w.ac.lastStatistics

\* the blocking script; it occupies TEST_ALARM_MS of clock time
TEST_ALARM_MS == 11500

\* a testAlarm() that runs its script whatever the state
testAlarm_unguarded(w, online) ==
    IF FALSE THEN [w EXCEPT !.ret = FALSE]
    ELSE
      LET w1 == [w EXCEPT !.ac.testMode = TRUE]
          w2 == sendTelegramNotification(w1, Msg("MSG_TEST_START"), online)
          w3 == sendTelegramNotification(w2, Msg("MSG_TEST_SMALL"), online)
          w4 == testBuzzer(w3, TRUE)
          w5 == sendTelegramNotification(w4, Msg("MSG_TEST_LARGE"), online)
          w6 == testBuzzer(w5, FALSE)
          w7 == sendTelegramNotification(w6, Msg("MSG_TEST_COMPLETE"), online)
      IN  [w7 EXCEPT !.ac.testMode = FALSE, !.ret = TRUE]

\* a testAlarm() that records its run as a session
testAlarm_recordsSession(w, online) ==
    IF isActive(w) THEN [w EXCEPT !.ret = FALSE]
    ELSE
      LET w1 == [w EXCEPT !.ac.testMode = TRUE]
          w2 == sendTelegramNotification(w1, Msg("MSG_TEST_START"), online)
          w3 == sendTelegramNotification(w2, Msg("MSG_TEST_SMALL"), online)
          w4 == testBuzzer(w3, TRUE)
          w5 == sendTelegramNotification(w4, Msg("MSG_TEST_LARGE"), online)
          w6 == testBuzzer(w5, FALSE)
          w7 == sendTelegramNotification(w6, Msg("MSG_TEST_COMPLETE"), online)
      IN  [w7 EXCEPT !.ac.testMode = FALSE,
                     !.ac.lastStatistics.stopSource = "STOP_COMPLETED",
                     !.ret = TRUE]

testAlarm(w, online) ==
    IF isActive(w) THEN [w EXCEPT !.ret = FALSE]
    ELSE
      LET w1 == [w EXCEPT !.ac.testMode = TRUE]
          w2 == sendTelegramNotification(w1, Msg("MSG_TEST_START"), online)
          w3 == sendTelegramNotification(w2, Msg("MSG_TEST_SMALL"), online)
          w4 == testBuzzer(w3, TRUE)
          w5 == sendTelegramNotification(w4, Msg("MSG_TEST_LARGE"), online)
          w6 == testBuzzer(w5, FALSE)
          w7 == sendTelegramNotification(w6, Msg("MSG_TEST_COMPLETE"), online)
      IN  [w7 EXCEPT !.ac.testMode = FALSE, !.ret = TRUE]

\* a reset() that also forgets the circuit health
reset_forgetsHealth(w) ==
    LET w1 == stopAllBuzzers(w)
    IN  [w1 EXCEPT !.ac.currentState = "ALARM_IDLE",
                   !.ac.previousState = "ALARM_IDLE",
                   !.ac.stageStartTime = 0,
                   !.ac.alarmStartTime = 0,
                   !.ac.lastHardwareError = "",
                   !.ac.lastStatistics = ZeroStatistics,
                   !.hw.state.smallBuzzer = "HW_STATUS_UNKNOWN",
                   !.hw.state.largeBuzzer = "HW_STATUS_UNKNOWN",
                   !.ret = TRUE]

\* a reset() that leaves the buzzers as they are
reset_leavesBuzzers(w) ==
    [w EXCEPT !.ac.currentState = "ALARM_IDLE",
              !.ac.previousState = "ALARM_IDLE",
              !.ac.stageStartTime = 0,
              !.ac.alarmStartTime = 0,
              !.ac.lastHardwareError = "",
              !.ac.lastStatistics = ZeroStatistics,
              !.ret = TRUE]

reset(w) ==
    LET w1 == stopAllBuzzers(w)
    IN  [w1 EXCEPT !.ac.currentState = "ALARM_IDLE",
                   !.ac.previousState = "ALARM_IDLE",
                   !.ac.stageStartTime = 0,
                   !.ac.alarmStartTime = 0,
                   !.ac.lastHardwareError = "",
                   !.ac.lastStatistics = ZeroStatistics,
                   !.ret = TRUE]

\* ================================================================= main.cpp

\* while (hardware.isXPressed()) { hardware.updateButtons(); delay(50); }
\* the pin of the button reads pressed for polls more polls and released
\* from then on, the other pins read released; the result is the world and
\* the clock when the loop is left
RECURSIVE waitForRelease(_, _, _, _)
waitForRelease(w, t, button, polls) ==
    LET pressed == IF button = "test" THEN w.hw.state.buttonTest
                   ELSE w.hw.state.buttonSilence
    IN  IF ~pressed THEN [w |-> w, t |-> t, restart |-> FALSE]
        ELSE LET raw == polls > 0
                 w1 == updateButtons(w, button = "test" /\ raw,
                                     button = "silence" /\ raw, FALSE, t)
             IN  waitForRelease(w1, t + 50, button,
                                IF polls > 0 THEN polls - 1 ELSE 0)

\* handleButtons(); restart says that ESP.restart() was reached
handleButtons(w, t, online, polls) ==
    LET a == IF w.hw.state.buttonTest
             THEN IF ~isActive(w)
                  THEN waitForRelease(testAlarm(w, online), t + TEST_ALARM_MS,
                                      "test", polls)
                  ELSE waitForRelease(w, t, "test", polls)
             ELSE [w |-> w, t |-> t, restart |-> FALSE]
        b == IF a.w.hw.state.buttonSilence
             THEN IF isActive(a.w)
                  THEN waitForRelease(stop(a.w, "STOP_SILENCE_BUTTON", a.t, online),
                                      a.t, "silence", polls)
                  ELSE waitForRelease(a.w, a.t, "silence", polls)
             ELSE a
    IN  IF isFactoryResetRequested(b.w, b.t)
        THEN LET w1 == IF isActive(b.w)
                       THEN stop(b.w, "STOP_SILENCE_BUTTON", b.t, online)
                       ELSE b.w
             IN  [w |-> setAlarmLED(w1, FALSE), t |-> b.t + 3000, restart |-> TRUE]
        ELSE b

\* ============================================================ the machine

VARIABLES
    now,        \* millis()
    ac,         \* AlarmController members and the static lastCheck of update()
    hw,         \* Hardware members and output levels
    call,       \* the last controller operation: name, argument, return value,
                \* effects in program order
    advances,   \* number of clock advances so far
    sessions    \* number of alarms started so far

vars == <<now, ac, hw, call, advances, sessions>>

\* ------------------------------------------------------------------ bounds
MaxAdvances == 3
MaxSessions == 2
\* clock values at which the first call is made
BootClocks == {0, 1000}
\* amounts of time that pass between two calls
Steps == {30000, 300000}
\* the stop reasons the callers in main.cpp pass
CallerStopSources == {"STOP_TELEGRAM_COMMAND", "STOP_SILENCE_BUTTON"}

\* ----------------------------------------------- constructors (Init state)
AlarmControllerInit ==
    [currentState |-> "ALARM_IDLE",
     previousState |-> "ALARM_IDLE",
     stageStartTime |-> 0,
     alarmStartTime |-> 0,
     telegramNotificationsEnabled |-> TRUE,
     hardwareChecksEnabled |-> TRUE,
     testMode |-> FALSE,
     lastHardwareError |-> "",
     lastStatistics |-> ZeroStatistics,
     lastCheck |-> 0]

HardwareInit ==
    [state |-> [smallBuzzer |-> "HW_STATUS_UNKNOWN",
                largeBuzzer |-> "HW_STATUS_UNKNOWN",
                buttonTest |-> FALSE,
                buttonSilence |-> FALSE,
                buttonReset |-> FALSE,
                resetButtonPressTime |-> 0,
                ledsEnabled |-> TRUE],
     testButton |-> [lastReading |-> FALSE, stableState |-> FALSE, lastChange |-> 0],
     silenceButton |-> [lastReading |-> FALSE, stableState |-> FALSE, lastChange |-> 0],
     resetButton |-> [lastReading |-> FALSE, stableState |-> FALSE, lastChange |-> 0],
     alarmLED |-> [enabled |-> FALSE, currentState |-> FALSE,
                   interval |-> 0, lastToggle |-> 0],
     alarmLedPin |-> FALSE,
     smallDuty |-> 0,
     largeDuty |-> 0,
     lastPulseToggle |-> 0,
     pulseState |-> FALSE,
     pulseStartTime |-> 0]

NoCall == [name |-> "none", arg |-> "", ret |-> TRUE, out |-> <<>>]

\* the global objects as constructed, at a clock value at which the first
\* call can be made
Init ==
    /\ now \in BootClocks
    /\ ac = AlarmControllerInit
    /\ hw = HardwareInit
    /\ call = NoCall
    /\ advances = 0
    /\ sessions = 0

\* the world a call starts from, and the bookkeeping of a finished call
World == [ac |-> ac, hw |-> hw, out |-> <<>>, ret |-> TRUE]

Returns(name, arg, w) ==
    /\ ac' = w.ac
    /\ hw' = w.hw
    /\ call' = [name |-> name, arg |-> arg, ret |-> w.ret, out |-> w.out]

\* ----------------------------------------------------------------- actions
\* online is what telegramBot.isOnline() answers during the call
Start ==
    /\ isActive(World) \/ sessions < MaxSessions
    /\ \E online \in BOOLEAN : Returns("start", "", start(World, now, online))
    /\ sessions' = IF isActive(World) THEN sessions ELSE sessions + 1
    /\ UNCHANGED <<now, advances>>

Stop(source) ==
    /\ \E online \in BOOLEAN :
           Returns("stop", source, stop(World, source, now, online))
    /\ UNCHANGED <<now, advances, sessions>>

\* a stop with one of the other reasons, issued right after the start() of
\* the last alarm of the run
StopAfterStart(source) ==
    /\ call.name = "start"
    /\ sessions = MaxSessions
    /\ Stop(source)

Update ==
    /\ \E online \in BOOLEAN : Returns("update", "", update(World, now, online))
    /\ UNCHANGED <<now, advances, sessions>>

\* testAlarm() blocks: the clock has moved on when it returns
TestAlarm ==
    /\ isActive(World) \/ advances < MaxAdvances
    /\ \E online \in BOOLEAN : Returns("testAlarm", "", testAlarm(World, online))
    /\ now' = IF isActive(World) THEN now ELSE now + TEST_ALARM_MS
    /\ advances' = IF isActive(World) THEN advances ELSE advances + 1
    /\ UNCHANGED sessions

Reset ==
    /\ Returns("reset", "", reset(World))
    /\ UNCHANGED <<now, advances, sessions>>

SetTelegramNotificationsEnabled(enabled) ==
    /\ ac' = [ac EXCEPT !.telegramNotificationsEnabled = enabled]
    /\ UNCHANGED <<now, hw, call, advances, sessions>>

SetHardwareChecksEnabled(enabled) ==
    /\ ac' = [ac EXCEPT !.hardwareChecksEnabled = enabled]
    /\ UNCHANGED <<now, hw, call, advances, sessions>>

\* Hardware::checkBuzzerCircuits with the two pins reading back as given
CheckBuzzerCircuits(smallOK, largeOK) ==
    /\ hw' = checkBuzzerCircuits(World, smallOK, largeOK).hw
    /\ UNCHANGED <<now, ac, call, advances, sessions>>

\* Time passes with no call in progress.  While the controller is idle the
\* passing of time changes nothing but the clock, so the clock is advanced
\* during an alarm (and by the blocking testAlarm) only.
Advance(d) ==
    /\ advances < MaxAdvances
    /\ isActive(World)
    /\ now' = now + d
    /\ advances' = advances + 1
    /\ call' = [NoCall EXCEPT !.name = "advance"]
    /\ UNCHANGED <<ac, hw, sessions>>

Next ==
    \/ Start
    \/ \E source \in CallerStopSources : Stop(source)
    \/ \E source \in AlarmStopSource \ CallerStopSources : StopAfterStart(source)
    \/ Update
    \/ TestAlarm
    \/ Reset
    \/ \E smallOK \in BOOLEAN, largeOK \in BOOLEAN : CheckBuzzerCircuits(smallOK, largeOK)
    \/ \E d \in Steps : Advance(d)

Spec == Init /\ [][Next]_vars

\* ------------------------------------------------- the escalation timeline
\* loop() with update() running once per millisecond, healthy hardware and
\* nobody stopping the alarm.  The run is observed one millisecond after
\* start() and every TimelineStride milliseconds from then on; update() has
\* run at every millisecond in between.

TimelineStride == 1000
MaxTicks == 302

\* update() at each of the n clock values t+1 .. t+n
RECURSIVE updateEveryMs(_, _, _, _)
updateEveryMs(w, t, n, online) ==
    IF n = 0 THEN w
    ELSE IF n = 1 THEN update([w EXCEPT !.out = <<>>], t + 1, online)
    ELSE LET h == n \div 2
             wh == updateEveryMs(w, t, h, online)
         IN  \* the first h calls have returned before the others are made
             IF wh.ret THEN updateEveryMs(wh, t + h, n - h, online) ELSE wh

\* the state after construction and a circuit check that found both buzzers
HealthyInit ==
    /\ now \in BootClocks
    /\ ac = AlarmControllerInit
    /\ hw = [HardwareInit EXCEPT !.state.smallBuzzer = "HW_STATUS_OK",
                                 !.state.largeBuzzer = "HW_STATUS_OK"]
    /\ call = NoCall
    /\ advances = 0
    /\ sessions = 0

TimelineStart ==
    /\ call.name = "none"
    /\ Returns("start", "", start(World, now, TRUE))
    /\ sessions' = sessions + 1
    /\ UNCHANGED <<now, advances>>

Ticks(n) ==
    /\ advances < MaxTicks
    /\ Returns("update", "", updateEveryMs(World, now, n, TRUE))
    /\ now' = now + n
    /\ advances' = advances + 1
    /\ UNCHANGED sessions

FirstTick == call.name = "start" /\ Ticks(1)

LaterTicks == call.name = "update" /\ Ticks(TimelineStride)

TimelineNext == TimelineStart \/ FirstTick \/ LaterTicks

TimelineSpec == HealthyInit /\ [][TimelineNext]_vars

\* --------------------------------------------------- the loop left running
\* loop() keeps calling update() while the clock advances; an alarm may be
\* started at any tick and nobody stops it.  The 32-bit clock wraps: the tick
\* that would pass ClockHorizon is the one at which millis() reads 0 again.

LoopStep == 100000
ClockHorizon == 600000

LoopStart ==
    /\ ~isActive(World)
    /\ Returns("start", "", start(World, now, TRUE))
    /\ UNCHANGED <<now, advances, sessions>>

LoopTick ==
    LET t == IF now + LoopStep > ClockHorizon THEN 0 ELSE now + LoopStep
    IN  /\ now' = t
        /\ Returns("update", "", update(World, t, TRUE))
        /\ UNCHANGED <<advances, sessions>>

LoopNext == LoopStart \/ LoopTick

LoopSpec == HealthyInit /\ [][LoopNext]_vars /\ WF_vars(LoopTick)

\* ------------------------------------------------------- one timed session
\* One alarm from start() to its end, on a clock that moves in small uneven
\* steps and wraps: the tick that would pass SessionHorizon is the one at
\* which millis() reads 0 again.  update() runs at every tick; a caller may
\* stop the alarm at any tick.

SessionSteps == {999, 5000}
SessionHorizon == 21000

SessionStart ==
    /\ sessions = 0
    /\ Returns("start", "", start(World, now, TRUE))
    /\ sessions' = 1
    /\ UNCHANGED <<now, advances>>

SessionTick(d) ==
    LET t == IF now + d > SessionHorizon THEN 0 ELSE now + d
    IN  /\ sessions = 0 \/ isActive(World)
        /\ now' = t
        /\ Returns("update", "", update(World, t, TRUE))
        /\ UNCHANGED <<advances, sessions>>

SessionStop(source) ==
    /\ isActive(World)
    /\ Returns("stop", source, stop(World, source, now, TRUE))
    /\ UNCHANGED <<now, advances, sessions>>

\* a buzzer circuit is found broken (or mended) by a check
SessionCircuits(smallOK, largeOK) ==
    /\ sessions = 0 \/ isActive(World)
    /\ hw' = checkBuzzerCircuits(World, smallOK, largeOK).hw
    /\ UNCHANGED <<now, ac, call, advances, sessions>>

SessionNext ==
    \/ SessionStart
    \/ \E d \in SessionSteps : SessionTick(d)
    \/ \E source \in CallerStopSources : SessionStop(source)
    \/ \E smallOK \in BOOLEAN, largeOK \in BOOLEAN :
          SessionCircuits(smallOK, largeOK)

SessionSpec == HealthyInit /\ [][SessionNext]_vars

\* ------------------------------------------------------------- the options
\* the controller with its two option setters: alarms with update() every
\* 4 or 10 seconds of clock time up to a horizon, the options and the circuit
\* health changing in between, the sink online or offline at each call
ConfigSteps == {4000, 10000}
ConfigHorizon == 24000

ConfigStart ==
    /\ ~isActive(World)
    /\ sessions < MaxSessions
    /\ \E online \in BOOLEAN : Returns("start", "", start(World, now, online))
    /\ sessions' = sessions + 1
    /\ UNCHANGED <<now, advances>>

ConfigTick(d) ==
    /\ now + d <= ConfigHorizon
    /\ now' = now + d
    /\ \E online \in BOOLEAN : Returns("update", "", update(World, now + d, online))
    /\ UNCHANGED <<advances, sessions>>

ConfigStop(source) ==
    /\ isActive(World)
    /\ \E online \in BOOLEAN :
           Returns("stop", source, stop(World, source, now, online))
    /\ UNCHANGED <<now, advances, sessions>>

ConfigCircuits(smallOK, largeOK) ==
    /\ isActive(World)
    /\ hw' = checkBuzzerCircuits(World, smallOK, largeOK).hw
    /\ UNCHANGED <<now, ac, call, advances, sessions>>

ConfigNext ==
    \/ ConfigStart
    \/ \E d \in ConfigSteps : ConfigTick(d)
    \/ \E source \in CallerStopSources : ConfigStop(source)
    \/ \E smallOK \in BOOLEAN : ConfigCircuits(smallOK, TRUE)
    \/ \E enabled \in BOOLEAN : SetTelegramNotificationsEnabled(enabled)
    \/ \E enabled \in BOOLEAN : SetHardwareChecksEnabled(enabled)

ConfigSpec == HealthyInit /\ [][ConfigNext]_vars

\* ------------------------------------------------------------- the buttons
\* updateButtons() polled every 25 or 26 ms with the silence and reset pins
\* reading anything; the clock wraps past the horizon
DebounceSteps == {25, 26}
DebounceHorizon == 130

ButtonPoll(d, horizon, silenceRaw, resetRaw) ==
    LET t == IF now + d > horizon THEN 0 ELSE now + d
    IN  /\ now' = t
        /\ hw' = updateButtons(World, FALSE, silenceRaw, resetRaw, t).hw
        /\ call' = [name |-> "updateButtons", arg |-> "", ret |-> TRUE, out |-> <<>>]
        /\ UNCHANGED <<ac, advances, sessions>>

DebounceNext ==
    \E d \in DebounceSteps : \E silenceRaw, resetRaw \in BOOLEAN :
        ButtonPoll(d, DebounceHorizon, silenceRaw, resetRaw)

DebounceSpec == Init /\ [][DebounceNext]_vars

\* updateButtons() polled every 1 or 5 seconds with the reset pin reading
\* anything, for the long hold; no stable press lasts through the part of
\* the clock's cycle that the wrap leaves out
HoldSteps == {1000, 5000}
HoldHorizon == 21000

HoldNext ==
    \E d \in HoldSteps : \E resetRaw \in BOOLEAN :
        /\ now + d > HoldHorizon => ~hw.state.buttonReset
        /\ ButtonPoll(d, HoldHorizon, FALSE, resetRaw)

HoldSpec == Init /\ [][HoldNext]_vars

\* ---------------------------------------------------------------- loop()
\* one iteration of loop() call by call: call.name is the call made last.
\* The test or the silence pin may read pressed, a /wake or /stop command may
\* arrive with the poll, and delay(10) and the rest of the iteration take
\* 3000 ms of clock time (a loop held up by the network).
TickSteps == {3000}
TickHorizon == 7000
TickWaitPolls == {0, 1, 40}
TickPins == {"none", "test", "silence"}
TickCommands == {"none", "/wake", "/stop"}

TickUpdateButtons(pin) ==
    /\ call.name \in {"none", "delay"}
    /\ hw' = updateButtons(World, pin = "test", pin = "silence", FALSE, now).hw
    /\ call' = [name |-> "updateButtons", arg |-> pin, ret |-> TRUE, out |-> <<>>]
    /\ UNCHANGED <<now, ac, advances, sessions>>

TickUpdateLEDs ==
    /\ call.name = "updateButtons"
    /\ Returns("updateLEDs", "", [updateLEDs(World, now) EXCEPT !.ret = TRUE])
    /\ UNCHANGED <<now, advances, sessions>>

TickHandleButtons ==
    /\ call.name = "updateLEDs"
    /\ \E online \in BOOLEAN : \E polls \in TickWaitPolls :
         LET r == handleButtons(World, now, online, polls)
         IN  /\ ~r.restart
             /\ Returns("handleButtons", "", [r.w EXCEPT !.ret = TRUE])
             /\ now' = r.t
    /\ UNCHANGED <<advances, sessions>>

\* a loop() that calls alarmController.update() right after updateLEDs()
TickUpdate_afterLEDs ==
    /\ call.name = "updateLEDs"
    /\ \E online \in BOOLEAN : Returns("update", "", update(World, now, online))
    /\ UNCHANGED <<now, advances, sessions>>

TickUpdate ==
    /\ call.name = "handleButtons"
    /\ \E online \in BOOLEAN : Returns("update", "", update(World, now, online))
    /\ UNCHANGED <<now, advances, sessions>>

\* telegramBot.poll() with the command handlers of main.cpp
TickPoll(command) ==
    /\ call.name = "update"
    /\ \E online \in BOOLEAN :
         CASE command = "/wake" /\ ~isActive(World) /\ sessions < MaxSessions ->
                /\ Returns("poll", command, start(World, now, online))
                /\ sessions' = sessions + 1
           [] command = "/stop" /\ isActive(World) ->
                /\ Returns("poll", command,
                           stop(World, "STOP_TELEGRAM_COMMAND", now, online))
                /\ UNCHANGED sessions
           [] OTHER ->
                /\ Returns("poll", "none", World)
                /\ UNCHANGED sessions
    /\ UNCHANGED <<now, advances>>

TickDelay(d) ==
    /\ call.name = "poll"
    /\ now + d <= TickHorizon
    /\ now' = now + d
    /\ call' = [name |-> "delay", arg |-> "", ret |-> TRUE, out |-> <<>>]
    /\ UNCHANGED <<ac, hw, advances, sessions>>

TickNext ==
    \/ \E pin \in TickPins : TickUpdateButtons(pin)
    \/ TickUpdateLEDs
    \/ TickHandleButtons
    \/ TickUpdate
    \/ \E command \in TickCommands : TickPoll(command)
    \/ \E d \in TickSteps : TickDelay(d)

TickSpec == HealthyInit /\ [][TickNext]_vars

\* ------------------------------------------------------- the pulse pattern
\* Up to two alarms on a clock that moves in quarter seconds (the 10 ms
\* loop, coarsened), with the loop held up for a second longer a bounded
\* number of times (a Telegram poll, a WiFi reconnect); update() runs at
\* every tick of an alarm; a caller may stop the alarm at any tick and
\* start the next one.

PulseSteps == {250, 1250}
PulseHorizon == 40000
PulseSessions == 2
PulseHoldUps == 1

PulseStart ==
    /\ ~isActive(World)
    /\ sessions < PulseSessions
    /\ Returns("start", "", start(World, now, TRUE))
    /\ sessions' = sessions + 1
    /\ UNCHANGED <<now, advances>>

PulseTick(d) ==
    /\ isActive(World)
    /\ now + d <= PulseHorizon
    /\ d > 250 => advances < PulseHoldUps
    /\ now' = now + d
    /\ advances' = IF d > 250 THEN advances + 1 ELSE advances
    /\ Returns("update", "", update(World, now + d, TRUE))
    /\ UNCHANGED sessions

PulseStop ==
    /\ isActive(World)
    /\ Returns("stop", "STOP_SILENCE_BUTTON",
               stop(World, "STOP_SILENCE_BUTTON", now, TRUE))
    /\ UNCHANGED <<now, advances, sessions>>

PulseNext ==
    \/ PulseStart
    \/ \E d \in PulseSteps : PulseTick(d)
    \/ PulseStop

PulseSpec == HealthyInit /\ [][PulseNext]_vars

\* ------------------------------------------------------ the blinking driver
\* The indicator driver on its own: the controller's two commands
\* (setAlarmLED, blinkAlarmLED with one of the three periods) at any time,
\* and updateLEDs() polled after a short or a long pause.

BlinkSteps == {100, 1300}
BlinkPeriods == {LED_BLINK_SLOW, LED_BLINK_MEDIUM, LED_BLINK_FAST}
BlinkHorizon == 4000

BlinkSet(level) ==
    /\ Returns("setAlarmLED", "", setAlarmLED(World, level))
    /\ UNCHANGED <<now, advances, sessions>>

BlinkStart(interval) ==
    /\ Returns("blinkAlarmLED", "", blinkAlarmLED(World, interval, now))
    /\ UNCHANGED <<now, advances, sessions>>

BlinkPoll(d) ==
    /\ now + d <= BlinkHorizon
    /\ now' = now + d
    /\ Returns("updateLEDs", ToString(d), updateLEDs(World, now + d))
    /\ UNCHANGED <<advances, sessions>>

BlinkNext ==
    \/ \E level \in BOOLEAN : BlinkSet(level)
    \/ \E interval \in BlinkPeriods : BlinkStart(interval)
    \/ \E d \in BlinkSteps : BlinkPoll(d)

BlinkSpec == Init /\ [][BlinkNext]_vars

\* ================================================================= claims

\* reading the effects of a call
Has(out, kind, val) == \E i \in DOMAIN out : out[i][1] = kind /\ out[i][2] = val
HasKind(out, kind) == \E i \in DOMAIN out : out[i][1] = kind
CountKind(out, kind) == Cardinality({i \in DOMAIN out : out[i][1] = kind})
Silent == hw.smallDuty = 0 /\ hw.largeDuty = 0
StoppedStates ==
    {"ALARM_STOPPED_USER", "ALARM_STOPPED_TIMEOUT", "ALARM_STOPPED_ERROR"}
ActiveStates ==
    {"ALARM_TRIGGERED", "ALARM_WARNING", "ALARM_ALERT", "ALARM_EMERGENCY"}

\* C1: whenever no call is in progress and the controller is Idle (not
\* active), the quiet and the loud actuator outputs are both 0, whatever
\* ended the alarm.
C1_IdleIsSilent ==
    (ac.currentState = "ALARM_IDLE" \/ ~isActive(World)) => Silent

\* C1 witness: an update() drove the quiet actuator to full output and then,
\* in the same call, stopped the alarm (timeout or hardware failure); the
\* controller is Idle.
C1_Witness ==
    /\ call.name = "update"
    /\ Has(call.out, "smallBuzzer", BUZZER_ON)
    /\ HasKind(call.out, "stop")
    /\ ac.currentState = "ALARM_IDLE"
    /\ ac.lastStatistics.maxStageReached = "ALARM_EMERGENCY"

\* C2: inside every successful stop(reason), from a caller or forced by
\* update(), writing 0 to both actuators is the first effect: it comes before
\* the statistics, before the terminal notification and before any state
\* change, and both actuators are 0 when the call returns.
C2_SilenceFirst ==
    \A i \in DOMAIN call.out :
        call.out[i][1] = "stop" =>
            /\ i + 2 <= Len(call.out)
            /\ call.out[i + 1] = Effect("smallBuzzer", 0)
            /\ call.out[i + 2] = Effect("largeBuzzer", 0)
            /\ \E j \in (i + 3) .. Len(call.out) : call.out[j][1] = "statistics"
            /\ \E j \in (i + 3) .. Len(call.out) : call.out[j][1] = "state"
            /\ \A j \in (i + 1) .. Len(call.out) :
                   call.out[j][1] \in {"statistics", "notify", "sendMessage", "state"}
                       => j > i + 2
            /\ Silent

\* C2 witness: a stop("STOP_SILENCE_BUTTON") that returned true in Alert, with
\* a terminal notification sent.
C2_Witness ==
    /\ call.name = "stop" /\ call.ret
    /\ call.arg = "STOP_SILENCE_BUTTON"
    /\ ac.lastStatistics.maxStageReached = "ALARM_ALERT"
    /\ HasKind(call.out, "sendMessage")

\* C3: for every start time T (T = 0 included) and every stage, after an
\* update() made while active at a clock with now - alarmStartTime >=
\* ALARM_SAFETY_TIMEOUT_MS returns, the controller is not active, the state
\* is Idle and the recorded stop reason is STOP_SAFETY_TIMEOUT.
C3_SafetyCeiling ==
    [][(/\ Update
        /\ isActive(World)
        /\ Elapsed32GE(now, ac.alarmStartTime, ALARM_SAFETY_TIMEOUT_MS))
       => /\ ac'.currentState = "ALARM_IDLE"
          /\ ac'.lastStatistics.stopSource = "STOP_SAFETY_TIMEOUT"]_vars

\* C3, the state the ceiling should exclude: update() has just returned in
\* Emergency, 300000 ms or more after the alarm was started at clock 0.
C3_Witness ==
    /\ call.name = "update"
    /\ ac.currentState = "ALARM_EMERGENCY"
    /\ ac.alarmStartTime = 0
    /\ Elapsed32GE(now, ac.alarmStartTime, ALARM_SAFETY_TIMEOUT_MS)

\* C6: start() on an idle controller returns true, and a stop(x) that follows
\* it immediately, for each of the six stop reasons x, returns true and
\* leaves the state Idle with isActive() false.
C6_StartThenStop ==
    [][/\ (Start /\ ~isActive(World)) => call'.ret
       /\ (/\ call.name = "start" /\ call.ret
           /\ call'.name = "stop" /\ call'.arg \in AlarmStopSource
           /\ Stop(call'.arg))
               => /\ call'.ret
                  /\ ac'.currentState = "ALARM_IDLE"
                  /\ ~isActive([ac |-> ac', hw |-> hw', out |-> <<>>, ret |-> TRUE])
      ]_vars

\* C6 witness: stop("STOP_NONE") has returned true at the instant of the
\* start() it follows; the controller is Idle.
C6_Witness ==
    /\ call.name = "stop" /\ call.ret
    /\ call.arg = "STOP_NONE"
    /\ ac.lastStatistics.maxStageReached = "ALARM_TRIGGERED"
    /\ ac.lastStatistics.stopTime = ac.alarmStartTime
    /\ ac.currentState = "ALARM_IDLE"

\* C7: start() returns false if and only if the controller is already active;
\* when it returns false the controller members (state, stage start, alarm
\* start, statistics), the actuator outputs and the indicator are as before
\* the call and no notification is emitted.
C7_StartRejected ==
    [][Start =>
         /\ (call'.ret = FALSE) <=> isActive(World)
         /\ (call'.ret = FALSE) => (ac' = ac /\ hw' = hw /\ call'.out = <<>>)
      ]_vars

\* C7 witness: start() returned false while the loud actuator was sounding.
C7_Witness ==
    /\ call.name = "start" /\ ~call.ret
    /\ ac.currentState = "ALARM_EMERGENCY"
    /\ hw.largeDuty = BUZZER_ON

\* C8: stop(x) returns false if and only if the controller is not active;
\* when it returns false the state and the last-session statistics are
\* unchanged and no notification is emitted.
C8_StopRejected ==
    [][(call'.name = "stop" /\ Stop(call'.arg)) =>
         /\ (call'.ret = FALSE) <=> ~isActive(World)
         /\ (call'.ret = FALSE) =>
               /\ ac'.currentState = ac.currentState
               /\ ac'.lastStatistics = ac.lastStatistics
               /\ ~HasKind(call'.out, "notify")
               /\ ~HasKind(call'.out, "sendMessage")
      ]_vars

\* C8 witness: stop() returned false on an idle controller that holds the
\* statistics of an earlier session ended by the safety timeout.
C8_Witness ==
    /\ call.name = "stop" /\ ~call.ret
    /\ ac.currentState = "ALARM_IDLE"
    /\ ac.lastStatistics.stopSource = "STOP_SAFETY_TIMEOUT"

\* C9: between calls the state is one of Idle, Triggered, Warning, Alert,
\* Emergency, never a Stopped* state, and a start() issued right after a
\* call that stopped the alarm returns true.
C9_ObservableStates ==
    /\ ac.currentState \in {"ALARM_IDLE"} \cup ActiveStates
    /\ ac.currentState \notin StoppedStates
    /\ HasKind(call.out, "stop") =>
          \A online \in BOOLEAN : start(World, now, online).ret

\* C9 witness: a stop() that returned true went through StoppedUser and back
\* to Idle within the call.
C9_Witness ==
    /\ call.name = "stop" /\ call.ret
    /\ Has(call.out, "state", "ALARM_STOPPED_USER")
    /\ \E i, j \in DOMAIN call.out :
          /\ i < j
          /\ call.out[i][1] = "state" /\ call.out[i][2] = "ALARM_STOPPED_USER"
          /\ call.out[j][1] = "state" /\ call.out[j][2] = "ALARM_IDLE"
    /\ ac.currentState = "ALARM_IDLE"

\* C10 as stated: on a successful start() the session start time is the
\* clock, the recorded stop reason is STOP_NONE, the state is Triggered and
\* one "command received" notification is emitted.
C10_StartClearsStopReason ==
    [][(Start /\ call'.ret) =>
         /\ ac'.alarmStartTime = now
         /\ ac'.lastStatistics.stopSource = "STOP_NONE"
         /\ ac'.currentState = "ALARM_TRIGGERED"
         /\ CountKind(call'.out, "notify") = 1
         /\ Has(call'.out, "notify", Msg("MSG_WAKE_RECEIVED"))
      ]_vars

\* C10 amended: on a successful start() the session start time is the clock,
\* the state is Triggered, one "command received" notification is handed to
\* the notifier (and forwarded exactly when notifications are enabled and the
\* bot is online), and the statistics of the last session, its stop reason
\* included, are left as they were.
C10_StartKeepsStatistics ==
    [][(Start /\ call'.ret) =>
         /\ ac'.alarmStartTime = now
         /\ ac'.lastStatistics = ac.lastStatistics
         /\ ac'.currentState = "ALARM_TRIGGERED"
         /\ CountKind(call'.out, "notify") = 1
         /\ Has(call'.out, "notify", Msg("MSG_WAKE_RECEIVED"))
         /\ CountKind(call'.out, "sendMessage") <= 1
         /\ HasKind(call'.out, "sendMessage") =>
               /\ ac.telegramNotificationsEnabled
               /\ Has(call'.out, "sendMessage", Msg("MSG_WAKE_RECEIVED"))
      ]_vars

\* C10 witness: a second alarm has just been started; the stop reason of the
\* first, a user stop, is still recorded.
C10_Witness ==
    /\ call.name = "start" /\ call.ret
    /\ ac.currentState = "ALARM_TRIGGERED"
    /\ ac.alarmStartTime = now
    /\ ac.lastStatistics.stopSource = "STOP_SILENCE_BUTTON"

\* C4: after any successful start(), if update() keeps being called and the
\* clock keeps advancing, the controller eventually is Idle with both
\* actuators at 0, with healthy hardware and no stop() from a caller.
C4_EventuallyIdle ==
    (call.name = "start" /\ call.ret)
        ~> (ac.currentState = "ALARM_IDLE" /\ Silent)

\* C4, the run that never ends: the loop has come round to a clock it has
\* shown before, the alarm started at clock 0 is in Emergency and the loud
\* actuator is on.
C4_Witness ==
    /\ call.name = "update"
    /\ now = 0
    /\ ac.alarmStartTime = 0
    /\ ac.currentState = "ALARM_EMERGENCY"
    /\ hw.largeDuty = BUZZER_ON

\* C5: after start() at time T with healthy hardware, no stop() and update()
\* run every millisecond, the state is Warning at T+3001, Alert at T+33001,
\* Emergency at T+63001, and at T+300001 it is Idle with recorded stop reason
\* STOP_SAFETY_TIMEOUT.
C5_Timeline ==
    LET T == ac.alarmStartTime
    IN  call.name = "update" =>
          /\ now = T + 3001 => ac.currentState = "ALARM_WARNING"
          /\ now = T + 33001 => ac.currentState = "ALARM_ALERT"
          /\ now = T + 63001 => ac.currentState = "ALARM_EMERGENCY"
          /\ now = T + 300001 =>
                /\ ac.currentState = "ALARM_IDLE"
                /\ ac.lastStatistics.stopSource = "STOP_SAFETY_TIMEOUT"

\* C5, where the timeline breaks: 300001 ms after a start() at clock 0 the
\* state is Emergency.
C5_Witness ==
    /\ call.name = "update"
    /\ ac.alarmStartTime = 0
    /\ now = 300001
    /\ ac.currentState = "ALARM_EMERGENCY"

\* ------------------------------------------------------ reading one step
\* a step in which stop() ran past its guard: a caller's stop that returned
\* true, or an update() that forced one
StopStep ==
    \/ call'.name = "stop" /\ call'.ret /\ Stop(call'.arg)
    \/ call'.name = "update" /\ HasKind(call'.out, "stop") /\ Update

\* the index of the entry of stop() in the effects of a call
StopIndex(out) == CHOOSE i \in DOMAIN out : out[i][1] = "stop"

\* the state in which stop() was entered: the last state the call had moved
\* to before, or the state it started in
StateAtStop(pre, out) ==
    LET k == StopIndex(out)
        moves == {i \in 1 .. (k - 1) : out[i][1] = "state"}
    IN  IF moves = {} THEN pre
        ELSE out[CHOOSE i \in moves : \A j \in moves : j <= i][2]

\* C11: every successful stop(reason) records the reason passed in, the state
\* at the moment stop was called (an active stage) as highest stage, the clock
\* of the matching start() as start time, and a hardware-issue flag that is
\* true exactly for STOP_HARDWARE_ERROR.  The start time is the one start()
\* stored, which no step of an active alarm changes.
C11_SessionRecord ==
    [][/\ StopStep =>
            LET reason == call'.out[StopIndex(call'.out)][2]
                st == ac'.lastStatistics
            IN  /\ st.stopSource = reason
                /\ st.maxStageReached = StateAtStop(ac.currentState, call'.out)
                /\ st.maxStageReached \in ActiveStates
                /\ st.startTime = ac.alarmStartTime
                /\ st.hardwareIssueDetected <=> (reason = "STOP_HARDWARE_ERROR")
       /\ (Start /\ call'.ret) => ac'.alarmStartTime = now
       /\ (ac.currentState \in ActiveStates /\ ac'.currentState \in ActiveStates)
             => ac'.alarmStartTime = ac.alarmStartTime
      ]_vars

\* C11 witness: an update() moved from Alert to Emergency and then stopped on
\* the safety timeout; Emergency is the recorded highest stage.
C11_Witness ==
    /\ call.name = "update"
    /\ Has(call.out, "state", "ALARM_EMERGENCY")
    /\ Has(call.out, "stop", "STOP_SAFETY_TIMEOUT")
    /\ ac.lastStatistics.maxStageReached = "ALARM_EMERGENCY"
    /\ ac.lastStatistics.stopSource = "STOP_SAFETY_TIMEOUT"
    /\ ac.lastStatistics.startTime = ac.alarmStartTime

\* C12: for every completed session the recorded duration is
\* (stopTime - startTime) / 1000 in the unsigned 32-bit arithmetic of the
\* clock, rounded down, and is never negative; stopTime is the clock at the
\* stop and startTime the clock stored by start().  When the clock has
\* wrapped in between (stopTime < startTime) the difference is taken modulo
\* 2^32 = 4294967 * 1000 + 296.
C12_Duration ==
    LET st == ac.lastStatistics
    IN  (sessions = 1 /\ ~isActive(World)) =>
          /\ st.stopTime = now
          /\ st.startTime = ac.alarmStartTime
          /\ st.duration >= 0
          /\ st.stopTime >= st.startTime =>
                /\ 1000 * st.duration <= st.stopTime - st.startTime
                /\ st.stopTime - st.startTime < 1000 * st.duration + 1000
          /\ st.stopTime < st.startTime =>
                st.duration =
                   4294967 - (((st.startTime - st.stopTime) + 703) \div 1000)

\* C12 witness: a session of 5999 ms stopped by the button; 5 seconds are
\* recorded.
C12_Witness ==
    /\ call.name = "stop" /\ call.ret
    /\ ac.lastStatistics.stopTime - ac.lastStatistics.startTime = 5999
    /\ ac.lastStatistics.duration = 5

\* C12 witness of the wrapped case: the session started before the clock
\* wrapped and was stopped after.
C12_WitnessWrapped ==
    /\ ~isActive(World)
    /\ sessions = 1
    /\ ac.lastStatistics.stopTime < ac.lastStatistics.startTime
    /\ ac.lastStatistics.duration > 0

\* a step that is a call of update() at clock t
UpdateAt(t) ==
    \E online \in BOOLEAN : Returns("update", "", update(World, t, online))

\* an update() made while active, with hardware checks enabled, at a clock at
\* which the periodic health check is due
CheckDueUpdate ==
    /\ call'.name = "update"
    /\ ac.currentState \in ActiveStates
    /\ ac.hardwareChecksEnabled
    /\ Elapsed32GE(now', ac.lastCheck, HW_CHECK_INTERVAL_MS)
    /\ UpdateAt(now')

\* what a stop for a hardware failure leaves behind
StoppedByError ==
    /\ ac'.currentState = "ALARM_IDLE"
    /\ Has(call'.out, "stop", "STOP_HARDWARE_ERROR")
    /\ Has(call'.out, "state", "ALARM_STOPPED_ERROR")
    /\ ac'.lastStatistics.stopSource = "STOP_HARDWARE_ERROR"
    /\ ac'.lastStatistics.hardwareIssueDetected
    /\ ac'.lastHardwareError # ""

StateAtCheck(pre, out) ==
    LET k == CHOOSE i \in DOMAIN out : out[i][1] = "check"
        moves == {i \in 1 .. (k - 1) : out[i][1] = "state"}
    IN  IF moves = {} THEN pre
        ELSE out[CHOOSE i \in moves : \A j \in moves : j <= i][2]

\* C14: a health check that runs forces stop(STOP_HARDWARE_ERROR) exactly
\* when the small buzzer is Failed and the state is Warning or Alert, or the
\* large buzzer is Failed and the state is Emergency, or both are Failed (in
\* any active state, Triggered included).  The state is the one the check
\* sees, after the stage logic of the same update().
C14_ForcedStopCases ==
    [][(call'.name = "update" /\ HasKind(call'.out, "check") /\ UpdateAt(now'))
       => LET cur == StateAtCheck(ac.currentState, call'.out)
              smallFailed == hw.state.smallBuzzer = "HW_STATUS_FAILED"
              largeFailed == hw.state.largeBuzzer = "HW_STATUS_FAILED"
          IN  /\ cur \in ActiveStates
              /\ Has(call'.out, "stop", "STOP_HARDWARE_ERROR")
                    <=> \/ smallFailed /\ cur \in {"ALARM_WARNING", "ALARM_ALERT"}
                        \/ largeFailed /\ cur = "ALARM_EMERGENCY"
                        \/ smallFailed /\ largeFailed
              /\ Has(call'.out, "stop", "STOP_HARDWARE_ERROR")
                    => ac'.currentState = "ALARM_IDLE"
              /\ ~Has(call'.out, "stop", "STOP_HARDWARE_ERROR")
                    => ac'.currentState = cur
      ]_vars

\* C14 witness: a health check in Triggered found both buzzers Failed and
\* stopped the alarm.
C14_Witness ==
    /\ call.name = "update"
    /\ Has(call.out, "stop", "STOP_HARDWARE_ERROR")
    /\ ac.lastStatistics.maxStageReached = "ALARM_TRIGGERED"
    /\ ac.lastHardwareError = "Both buzzer circuits failed"
    /\ ac.currentState = "ALARM_IDLE"

\* C14, a case without a stop: a health check ran in Alert with only the
\* large buzzer Failed and the alarm goes on.
C14_WitnessNoStop ==
    /\ call.name = "update"
    /\ HasKind(call.out, "check")
    /\ ac.currentState = "ALARM_ALERT"
    /\ hw.state.largeBuzzer = "HW_STATUS_FAILED"
    /\ hw.state.smallBuzzer = "HW_STATUS_OK"

\* C15: after an update() that leaves the controller in Alert the small
\* buzzer is at BUZZER_ON and the large buzzer at 0; after an update() that
\* leaves it in Emergency the large buzzer is at BUZZER_ON; in Warning the
\* large buzzer is 0; in Idle and Triggered both are 0; the large buzzer is
\* non-zero only in Emergency.
C15_OutputPolicy ==
    /\ call.name = "update" =>
          /\ ac.currentState = "ALARM_ALERT" =>
                hw.smallDuty = BUZZER_ON /\ hw.largeDuty = 0
          /\ ac.currentState = "ALARM_EMERGENCY" => hw.largeDuty = BUZZER_ON
    /\ ac.currentState = "ALARM_WARNING" => hw.largeDuty = 0
    /\ ac.currentState \in {"ALARM_IDLE", "ALARM_TRIGGERED"} => Silent
    /\ hw.largeDuty # 0 => ac.currentState = "ALARM_EMERGENCY"

\* C15, where the policy is not met: the update() that moved from Alert to
\* Emergency has returned and the large buzzer is still off.
C15_Witness ==
    /\ call.name = "update"
    /\ Has(call.out, "state", "ALARM_EMERGENCY")
    /\ ac.currentState = "ALARM_EMERGENCY"
    /\ hw.largeDuty = 0

\* C15, the part that holds: an update() that starts and ends in Alert leaves
\* the small buzzer on and the large one off, one that starts and ends in
\* Emergency leaves the large buzzer on, and the state-only parts hold in
\* every state.
C15_OutputPolicyFromSecondUpdate ==
    [][/\ (call'.name = "update" /\ UpdateAt(now')) =>
            /\ (ac.currentState = "ALARM_ALERT" /\ ac'.currentState = "ALARM_ALERT")
                  => hw'.smallDuty = BUZZER_ON /\ hw'.largeDuty = 0
            /\ (/\ ac.currentState = "ALARM_EMERGENCY"
                /\ ac'.currentState = "ALARM_EMERGENCY")
                  => hw'.largeDuty = BUZZER_ON
       /\ ac'.currentState = "ALARM_WARNING" => hw'.largeDuty = 0
       /\ ac'.currentState \in {"ALARM_IDLE", "ALARM_TRIGGERED"}
             => hw'.smallDuty = 0 /\ hw'.largeDuty = 0
       /\ hw'.largeDuty # 0 => ac'.currentState = "ALARM_EMERGENCY"
      ]_vars

\* the stage after a stage, and how long a stage lasts
NextStage(state) ==
    CASE state = "ALARM_TRIGGERED" -> "ALARM_WARNING"
      [] state = "ALARM_WARNING" -> "ALARM_ALERT"
      [] state = "ALARM_ALERT" -> "ALARM_EMERGENCY"
      [] OTHER -> state

StageDuration(state) ==
    CASE state = "ALARM_TRIGGERED" -> 3000
      [] state = "ALARM_WARNING" -> 30000
      [] state = "ALARM_ALERT" -> 30000
      [] OTHER -> 0

\* C16: the stage changes only inside update(): Triggered to Warning at stage
\* elapsed >= 3000 ms, Warning to Alert at >= 30000 ms, Alert to Emergency at
\* >= 30000 ms.  One update() advances by at most one stage, no stage is
\* skipped, the stage never moves backwards within a session, and a stage
\* lasts at least its duration from the tick that entered it unless the
\* alarm is stopped: the stage start is the clock of the entering update()
\* and stays until the stage is left.
C16_StageChanges ==
    [][/\ (/\ ac.currentState \in ActiveStates
           /\ ac'.currentState \in ActiveStates
           /\ ac'.currentState # ac.currentState)
          => /\ call'.name = "update" /\ UpdateAt(now')
             /\ ac.currentState # "ALARM_EMERGENCY"
             /\ ac'.currentState = NextStage(ac.currentState)
             /\ now' - ac.stageStartTime >= StageDuration(ac.currentState)
             /\ ac'.stageStartTime = now'
       /\ (/\ ac.currentState \in ActiveStates
           /\ ac'.currentState = ac.currentState)
          => ac'.stageStartTime = ac.stageStartTime
       /\ (/\ call'.name = "update" /\ UpdateAt(now')
           /\ ac.currentState \in {"ALARM_TRIGGERED", "ALARM_WARNING", "ALARM_ALERT"})
          => IF now' - ac.stageStartTime >= StageDuration(ac.currentState)
             THEN ac'.currentState \in {NextStage(ac.currentState), "ALARM_IDLE"}
             ELSE ac'.currentState \in {ac.currentState, "ALARM_IDLE"}
      ]_vars

\* C16 witness: an update() exactly 30000 ms after Warning was entered has
\* moved to Alert.
C16_Witness ==
    /\ call.name = "update"
    /\ Has(call.out, "state", "ALARM_ALERT")
    /\ ac.currentState = "ALARM_ALERT"
    /\ ac.previousState = "ALARM_WARNING"
    /\ ac.stageStartTime = now
    /\ now - ac.alarmStartTime = 60000

\* C16 witness of the single step: an update() 300000 ms after start() has
\* moved from Triggered to Warning, not further.
C16_WitnessOneStage ==
    /\ call.name = "update"
    /\ ac.currentState = "ALARM_WARNING"
    /\ ac.previousState = "ALARM_TRIGGERED"
    /\ ac.stageStartTime = now
    /\ now - ac.alarmStartTime = 300000

\* how often an effect occurs in the trace of a call
Count(out, kind, val) ==
    Cardinality({i \in DOMAIN out : out[i][1] = kind /\ out[i][2] = val})

EscalationStages == {"ALARM_WARNING", "ALARM_ALERT", "ALARM_EMERGENCY"}

EntryMessage(state) ==
    CASE state = "ALARM_WARNING" -> Msg("MSG_WARNING_STARTED")
      [] state = "ALARM_ALERT" -> Msg("MSG_ALERT_STARTED")
      [] state = "ALARM_EMERGENCY" -> Msg("MSG_EMERGENCY_STARTED")

EntryBlink(state) ==
    CASE state = "ALARM_WARNING" -> LED_BLINK_SLOW
      [] state = "ALARM_ALERT" -> LED_BLINK_MEDIUM
      [] state = "ALARM_EMERGENCY" -> LED_BLINK_FAST

StageBefore(state) ==
    CASE state = "ALARM_WARNING" -> "ALARM_TRIGGERED"
      [] state = "ALARM_ALERT" -> "ALARM_WARNING"
      [] state = "ALARM_EMERGENCY" -> "ALARM_ALERT"

\* the entry actions of Triggered, Warning, Alert and Emergency, and no entry
\* action without a landing
EntryActionsOfStages ==
    /\ \A s \in EscalationStages :
         /\ call'.name # "update" =>
              /\ ~Has(call'.out, "notify", EntryMessage(s))
              /\ ~Has(call'.out, "state", s)
         /\ (call'.name = "update" /\ UpdateAt(now')) =>
              /\ Count(call'.out, "state", s) <= 1
              /\ Count(call'.out, "notify", EntryMessage(s))
                   = Count(call'.out, "state", s)
              /\ Count(call'.out, "blinkAlarmLED", EntryBlink(s))
                   = Count(call'.out, "state", s)
              /\ CountKind(call'.out, "blinkAlarmLED")
                   = Cardinality({x \in EscalationStages :
                                    Has(call'.out, "state", x)})
              /\ Has(call'.out, "state", s) => ac.currentState = StageBefore(s)
         /\ (ac'.currentState = s /\ ac.currentState # s) =>
              /\ hw'.alarmLED.enabled
              /\ hw'.alarmLED.interval = EntryBlink(s)
              /\ hw'.alarmLED.lastToggle = now'
    /\ (ac'.currentState = "ALARM_TRIGGERED" /\ ac.currentState # "ALARM_TRIGGERED") =>
         /\ hw'.alarmLedPin = TRUE
         /\ ~hw'.alarmLED.enabled
    /\ (call'.name = "update" /\ UpdateAt(now')
        /\ ac'.currentState = ac.currentState) =>
         /\ ~HasKind(call'.out, "state")
         /\ ~HasKind(call'.out, "blinkAlarmLED")
         /\ ~HasKind(call'.out, "alarmLED")
         /\ \A s \in EscalationStages : ~Has(call'.out, "notify", EntryMessage(s))
         /\ hw'.alarmLED = hw.alarmLED
         /\ hw'.alarmLedPin = hw.alarmLedPin

\* the entry action of Idle
EntryActionOfIdle ==
    (ac'.currentState = "ALARM_IDLE" /\ ac.currentState # "ALARM_IDLE") =>
      /\ hw'.smallDuty = 0
      /\ hw'.largeDuty = 0
      /\ hw'.alarmLedPin = FALSE
      /\ ~hw'.alarmLED.enabled

\* C17: entry actions run exactly once per landing on a state: the "warning
\* started", "alert started" and "emergency" notifications are emitted only by
\* the update() that lands on Warning, Alert, Emergency (from Triggered,
\* Warning, Alert), once each; the indicator is solid-on on entering
\* Triggered and blinks at the slow/medium/fast period on entering
\* Warning/Alert/Emergency; on entering Idle both actuators are 0 and the
\* indicator is off and not blinking; an update() that stays in its state
\* runs no entry action.
C17_EntryActions ==
    [][EntryActionsOfStages /\ EntryActionOfIdle]_vars

\* C17 without reset(): the same for every step but reset(), which assigns
\* Idle without a transition
C17_EntryActionsOfTransitions ==
    [][EntryActionsOfStages /\ (call'.name # "reset" => EntryActionOfIdle)]_vars

\* C17 witness: reset() in an active stage has left the controller Idle with
\* the indicator still blinking.
C17_Witness ==
    /\ call.name = "reset"
    /\ ac.currentState = "ALARM_IDLE"
    /\ hw.alarmLED.enabled
    /\ hw.alarmLED.interval = LED_BLINK_SLOW

\* C17 witness of an entry action: the update() that landed on Emergency has
\* emitted the notification once and set the fast blink.
C17_WitnessEmergency ==
    /\ call.name = "update"
    /\ ac.currentState = "ALARM_EMERGENCY"
    /\ Count(call.out, "notify", Msg("MSG_EMERGENCY_STARTED")) = 1
    /\ hw.alarmLED.enabled
    /\ hw.alarmLED.interval = 200

\* C18: the periodic hardware health check runs only while the controller
\* is active and hardware checks are enabled, at most once per update(), and
\* only when the clock is at least 10000 ms past the previous execution,
\* whichever session that was in: lastCheck is the clock of the last
\* execution (0 before the first) and nothing else changes it.
C18_CheckRateLimit ==
    [][/\ (call'.name = "update" /\ UpdateAt(now')) =>
            /\ CountKind(call'.out, "check") <= 1
            /\ HasKind(call'.out, "check") =>
                 /\ StateAtCheck(ac.currentState, call'.out) \in ActiveStates
                 /\ ac.hardwareChecksEnabled
                 /\ now' - ac.lastCheck >= 10000
                 /\ Has(call'.out, "check", now')
                 /\ ac'.lastCheck = now'
            /\ ~HasKind(call'.out, "check") => ac'.lastCheck = ac.lastCheck
       /\ call'.name # "update" => ~HasKind(call'.out, "check")
       /\ ~(call'.name = "update" /\ UpdateAt(now')) => ac'.lastCheck = ac.lastCheck
      ]_vars

\* C18 witness: in the second alarm an update() has run the check, 10000 ms
\* or more after a check of the first alarm.
C18_Witness ==
    /\ call.name = "update"
    /\ HasKind(call.out, "check")
    /\ sessions = 2
    /\ ac.currentState = "ALARM_WARNING"
    /\ ac.lastCheck = now
    /\ ac.lastStatistics.stopTime >= 10000
    /\ ac.lastStatistics.stopTime - ac.lastStatistics.startTime >= 10000

\* C18 witness with the checks switched off: an update() in Warning with the
\* interval long over has run no check.
C18_WitnessDisabled ==
    /\ call.name = "update"
    /\ ~HasKind(call.out, "check")
    /\ ac.currentState = "ALARM_WARNING"
    /\ ~ac.hardwareChecksEnabled
    /\ ac.stageStartTime + 10000 <= now
    /\ ac.lastCheck = 0

HardwareMessages ==
    {Msg("MSG_ERROR_BUZZER_SMALL"), Msg("MSG_ERROR_BUZZER_LARGE"),
     Msg("MSG_ERROR_BOTH_BUZZERS")}

\* C19: the notifications a successful stop emits, by reason: for
\* STOP_SAFETY_TIMEOUT exactly the timeout message; for STOP_TELEGRAM_COMMAND
\* and STOP_SILENCE_BUTTON exactly one "stopped" message carrying the
\* duration of the session in whole seconds and the source; for
\* STOP_HARDWARE_ERROR none, the only hardware message of the update() being
\* the one the health check emitted before it called stop().
C19_TerminalNotification ==
    [][StopStep =>
         LET out == call'.out
             k == StopIndex(out)
             reason == out[k][2]
             after == {i \in (k + 1) .. Len(out) : out[i][1] = "notify"}
             hardware == {i \in DOMAIN out : /\ out[i][1] = "notify"
                                             /\ out[i][2] \in HardwareMessages}
             seconds == (now' - ac.alarmStartTime) \div 1000
         IN  /\ CountKind(out, "stop") = 1
             /\ reason = "STOP_SAFETY_TIMEOUT" =>
                  /\ Cardinality(after) = 1
                  /\ \A i \in after : out[i][2] = Msg("MSG_ALARM_TIMEOUT")
                  /\ hardware = {}
             /\ reason = "STOP_TELEGRAM_COMMAND" =>
                  /\ Cardinality(after) = 1
                  /\ \A i \in after :
                       out[i][2] = <<"MSG_ALARM_STOPPED", seconds, "Telegram">>
                  /\ hardware = {}
             /\ reason = "STOP_SILENCE_BUTTON" =>
                  /\ Cardinality(after) = 1
                  /\ \A i \in after :
                       out[i][2] = <<"MSG_ALARM_STOPPED", seconds, "Button">>
                  /\ hardware = {}
             /\ reason = "STOP_HARDWARE_ERROR" =>
                  /\ after = {}
                  /\ call'.name = "stop" => ~HasKind(out, "notify")
                  /\ call'.name = "update" =>
                       /\ Cardinality(hardware) = 1
                       /\ \A i \in hardware :
                            /\ i < k
                            /\ \E c \in 1 .. (i - 1) : out[c][1] = "check"
      ]_vars

\* C19 witness: a stop by the button 30 s into the alarm has emitted its one
\* message with duration 30.
C19_Witness ==
    /\ call.name = "stop"
    /\ call.arg = "STOP_SILENCE_BUTTON"
    /\ call.ret
    /\ Count(call.out, "notify", StoppedMsg(30, "Button")) = 1
    /\ CountKind(call.out, "notify") = 1
    /\ ac.lastStatistics.duration = 30

\* C19 witness of the hardware stop: the update() whose health check failed
\* has emitted the health check's message and nothing after the stop.
C19_WitnessHardware ==
    /\ call.name = "update"
    /\ Has(call.out, "stop", "STOP_HARDWARE_ERROR")
    /\ Has(call.out, "notify", Msg("MSG_ERROR_BUZZER_SMALL"))
    /\ ac.lastStatistics.stopSource = "STOP_HARDWARE_ERROR"

\* C19 witness of the timeout stop
C19_WitnessTimeout ==
    /\ call.name = "update"
    /\ Has(call.out, "stop", "STOP_SAFETY_TIMEOUT")
    /\ Has(call.out, "notify", Msg("MSG_ALARM_TIMEOUT"))

\* the controller with the notification option set as given
WithNotifications(enabled) ==
    [World EXCEPT !.ac.telegramNotificationsEnabled = enabled]

\* what a call leaves behind apart from the notification option and the
\* messages handed to the sink
Outcome(w) ==
    [ac |-> [w.ac EXCEPT !.telegramNotificationsEnabled = TRUE],
     hw |-> w.hw,
     ret |-> w.ret,
     out |-> SelectSeq(w.out, LAMBDA e : e[1] # "sendMessage")]

Messages(out, kind) ==
    LET sel == SelectSeq(out, LAMBDA e : e[1] = kind)
    IN  [i \in 1 .. Len(sel) |-> sel[i][2]]

\* every notification is handed to the sink once when the option is on and
\* the sink is online, and none is otherwise
Delivered(w, enabled, online) ==
    Messages(w.out, "sendMessage")
      = IF enabled /\ online THEN Messages(w.out, "notify") ELSE <<>>

\* C20: in every reachable state, each call of the controller (start, stop
\* with any reason, update at the current clock, one step later, or past the
\* safety timeout, testAlarm) has
\* the same outcome - controller state, actuator and indicator outputs,
\* statistics, return value and effects other than the messages sent -
\* whether notifications are enabled or disabled and whether the sink is
\* online or offline; the option and the sink decide only whether the
\* notifications of that call are handed to the sink, and since the state
\* after a dropped notification equals the state after a delivered one,
\* nothing is kept for a later retry.
C20_NotificationsBestEffort ==
    \A enabled, online \in BOOLEAN :
      LET w == WithNotifications(enabled)
          r == WithNotifications(TRUE)
      IN  /\ Outcome(start(w, now, online)) = Outcome(start(r, now, TRUE))
          /\ Delivered(start(w, now, online), enabled, online)
          /\ \A source \in AlarmStopSource :
               /\ Outcome(stop(w, source, now, online))
                    = Outcome(stop(r, source, now, TRUE))
               /\ Delivered(stop(w, source, now, online), enabled, online)
          /\ \A d \in ConfigSteps \cup {0, ALARM_SAFETY_TIMEOUT_MS} :
               /\ Outcome(update(w, now + d, online))
                    = Outcome(update(r, now + d, TRUE))
               /\ Delivered(update(w, now + d, online), enabled, online)
          /\ Outcome(testAlarm(w, online)) = Outcome(testAlarm(r, TRUE))
          /\ Delivered(testAlarm(w, online), enabled, online)

\* C20 witness: with notifications disabled an update() has entered Warning;
\* the "warning started" notification was dropped.
C20_Witness ==
    /\ call.name = "update"
    /\ ~ac.telegramNotificationsEnabled
    /\ ac.currentState = "ALARM_WARNING"
    /\ Has(call.out, "notify", Msg("MSG_WARNING_STARTED"))
    /\ ~HasKind(call.out, "sendMessage")
    /\ ac.stageStartTime = now

\* C20 witness with the sink offline: the notification of a failed health
\* check was dropped, the alarm was stopped all the same.
C20_WitnessOffline ==
    /\ call.name = "update"
    /\ ac.telegramNotificationsEnabled
    /\ Has(call.out, "notify", Msg("MSG_ERROR_BUZZER_SMALL"))
    /\ ~HasKind(call.out, "sendMessage")
    /\ ac.currentState = "ALARM_IDLE"
    /\ ac.lastStatistics.hardwareIssueDetected

\* C21: testAlarm() called while the controller is active returns false and
\* changes nothing; called in Idle it returns true, never leaves Idle (no
\* state change during the call), writes no session statistics, and both
\* actuators are 0 when it returns.
C21_TestAlarm ==
    [][(call'.name = "testAlarm" /\ TestAlarm) =>
         IF ac.currentState \in ActiveStates
         THEN /\ ~call'.ret
              /\ call'.out = <<>>
              /\ ac' = ac
              /\ hw' = hw
              /\ now' = now
         ELSE /\ call'.ret
              /\ ac.currentState = "ALARM_IDLE"
              /\ ac'.currentState = "ALARM_IDLE"
              /\ ~HasKind(call'.out, "state")
              /\ ~HasKind(call'.out, "statistics")
              /\ ~HasKind(call'.out, "stop")
              /\ ac'.lastStatistics = ac.lastStatistics
              /\ ac'.alarmStartTime = ac.alarmStartTime
              /\ hw'.smallDuty = 0
              /\ hw'.largeDuty = 0
      ]_vars

\* C21 witness: a testAlarm() in Idle, after a completed alarm, has sounded
\* both actuators and returned true with both at 0.
C21_Witness ==
    /\ call.name = "testAlarm"
    /\ call.ret
    /\ Has(call.out, "smallBuzzer", 255)
    /\ Has(call.out, "largeBuzzer", 255)
    /\ ac.currentState = "ALARM_IDLE"
    /\ ac.lastStatistics.stopSource # "STOP_NONE"
    /\ Silent

\* C21 witness of the refusal: a testAlarm() during Warning has returned false
C21_WitnessActive ==
    /\ call.name = "testAlarm"
    /\ ~call.ret
    /\ ac.currentState = "ALARM_WARNING"

\* for how long the reading of a button has been the same at clock t, the
\* polls that saw it counted; a clock that has wrapped stands for a long time
HeldMs(button, t) ==
    IF t >= button.lastChange THEN t - button.lastChange ELSE 2147483647

\* one updateButtons() poll of one button, with the settle time that makes
\* the stable state follow the reading
DebounceStep(before, after, t, settled) ==
    /\ after.lastChange = IF after.lastReading # before.lastReading
                          THEN t ELSE before.lastChange
    /\ after.stableState # before.stableState =>
         /\ after.stableState = after.lastReading
         /\ after.lastReading = before.lastReading
         /\ HeldMs(after, t) >= settled
    /\ HeldMs(after, t) >= settled => after.stableState = after.lastReading

C22_WitnessBoundary ==
    /\ call.name = "updateButtons"
    /\ hw.resetButton.lastReading
    /\ ~hw.resetButton.stableState
    /\ now - hw.resetButton.lastChange = 50

\* isFactoryResetRequested() asked at clock t with the hardware as given
ResetRequested(h, t) ==
    isFactoryResetRequested([ac |-> ac, hw |-> h, out |-> <<>>, ret |-> TRUE], t)

\* the time since the clock value since, at clock t; a clock that has wrapped
\* stands for a long time
SinceMs(since, t) == IF t >= since THEN t - since ELSE 1073741823

\* C23: the press timestamp is the clock of the poll at which the stable
\* state of the reset button became pressed, it is kept for the whole
\* unbroken press and is cleared exactly when the stable state is released;
\* isFactoryResetRequested() is true exactly when the button is stably
\* pressed and >= 10000 ms have passed since that poll, whatever the clock
\* value at which the press began.
C23_LongHold ==
    [][call'.name = "updateButtons" =>
         LET pressed == hw.state.buttonReset
             stamp == hw.state.resetButtonPressTime
         IN  /\ hw'.state.buttonReset = hw'.resetButton.stableState
             /\ ~hw'.state.buttonReset => hw'.state.resetButtonPressTime = 0
             /\ (hw'.state.buttonReset /\ ~pressed) =>
                  hw'.state.resetButtonPressTime = now'
             /\ (hw'.state.buttonReset /\ pressed) =>
                  hw'.state.resetButtonPressTime = stamp
             /\ \A later \in {0, 1000} :
                  ResetRequested(hw', now' + later)
                    <=> /\ hw'.state.buttonReset
                        /\ SinceMs(IF pressed THEN stamp ELSE now', now')
                             + later >= 10000
      ]_vars

\* C23 for presses that do not begin at clock value 0
C23_LongHoldNotFromZero ==
    [][call'.name = "updateButtons" =>
         LET pressed == hw.state.buttonReset /\ hw.state.resetButtonPressTime # 0
             stamp == hw.state.resetButtonPressTime
         IN  /\ hw'.state.buttonReset = hw'.resetButton.stableState
             /\ ~hw'.state.buttonReset => hw'.state.resetButtonPressTime = 0
             /\ (hw'.state.buttonReset /\ ~pressed) =>
                  hw'.state.resetButtonPressTime = now'
             /\ (hw'.state.buttonReset /\ pressed) =>
                  hw'.state.resetButtonPressTime = stamp
             /\ (hw.state.buttonReset /\ ~pressed) => now = 0
             /\ \A later \in {0, 1000} :
                  ResetRequested(hw', now' + later)
                    <=> /\ hw'.state.buttonReset
                        /\ hw'.state.resetButtonPressTime # 0
                        /\ SinceMs(IF pressed THEN stamp ELSE now', now')
                             + later >= 10000
      ]_vars

\* C23 witness: the stable state became pressed at clock value 0 and the
\* press has no timestamp.
C23_Witness ==
    /\ call.name = "updateButtons"
    /\ hw.state.buttonReset
    /\ hw.state.resetButtonPressTime = 0
    /\ ~ResetRequested(hw, now + 10000)

\* C23 witness of a request: pressed since 2000, asked at 12000
C23_WitnessRequested ==
    /\ call.name = "updateButtons"
    /\ hw.state.buttonReset
    /\ hw.state.resetButtonPressTime = 2000
    /\ now = 12000
    /\ ResetRequested(hw, now)
    /\ ~ResetRequested(hw, now - 1)

Health(h) == <<h.state.smallBuzzer, h.state.largeBuzzer>>

\* C24: the health of the two actuators is Unknown for both until the first
\* checkBuzzerCircuits(); only checkBuzzerCircuits() changes it - no call of
\* the controller does, and neither would updateButtons() or updateLEDs() in
\* the state reached; after a check each status is Ok or Failed and never
\* Unknown again.
C24_HealthOnlyByCheck ==
    [][/\ Health(hw') # Health(hw) =>
            /\ \E smallOK, largeOK \in BOOLEAN : CheckBuzzerCircuits(smallOK, largeOK)
            /\ call' = call
       /\ (\E smallOK, largeOK \in BOOLEAN : CheckBuzzerCircuits(smallOK, largeOK)) =>
            /\ hw'.state.smallBuzzer \in {"HW_STATUS_OK", "HW_STATUS_FAILED"}
            /\ hw'.state.largeBuzzer \in {"HW_STATUS_OK", "HW_STATUS_FAILED"}
       /\ hw.state.smallBuzzer # "HW_STATUS_UNKNOWN" =>
            hw'.state.smallBuzzer \in {"HW_STATUS_OK", "HW_STATUS_FAILED"}
       /\ hw.state.largeBuzzer # "HW_STATUS_UNKNOWN" =>
            hw'.state.largeBuzzer \in {"HW_STATUS_OK", "HW_STATUS_FAILED"}
       /\ (hw.state.smallBuzzer = "HW_STATUS_UNKNOWN")
            <=> (hw.state.largeBuzzer = "HW_STATUS_UNKNOWN")
       /\ \A a, b \in BOOLEAN :
            Health(updateButtons(World, FALSE, a, b, now).hw) = Health(hw)
       /\ Health(updateLEDs(World, now).hw) = Health(hw)
      ]_vars

\* C24 witness: an alarm has run and stopped on a failed circuit, with the
\* health as the check left it.
C24_Witness ==
    /\ call.name = "update"
    /\ Has(call.out, "stop", "STOP_HARDWARE_ERROR")
    /\ hw.state.smallBuzzer = "HW_STATUS_FAILED"
    /\ hw.state.largeBuzzer = "HW_STATUS_OK"

\* C24 witness before the first check: an alarm has started with both
\* still Unknown
C24_WitnessUnknown ==
    /\ call.name = "update"
    /\ ac.currentState = "ALARM_WARNING"
    /\ Health(hw) = <<"HW_STATUS_UNKNOWN", "HW_STATUS_UNKNOWN">>

\* what a successful stop writes: the session that has just ended
SessionWritten ==
    LET stats == getLastStatistics([ac |-> ac', hw |-> hw', out |-> <<>>, ret |-> TRUE])
        k == StopIndex(call'.out)
    IN  /\ stats.stopTime = now'
        /\ stats.startTime = ac.alarmStartTime
        /\ stats.stopSource = call'.out[k][2]
        /\ stats.stopSource # "STOP_NONE" \/ call'.arg = "STOP_NONE"
        /\ stats.maxStageReached \in ActiveStates

\* C25: getLastStatistics() returns the all-zero session until the first
\* successful stop; a successful stop writes the session that has ended;
\* nothing else - start(), an update() that does not stop - changes what it
\* returns.
C25_LastStatistics ==
    /\ getLastStatistics(World) = ZeroStatistics
    /\ [][/\ ac'.lastStatistics # ac.lastStatistics => StopStep
          /\ (HasKind(call'.out, "stop") /\ StopStep) => SessionWritten
         ]_vars

\* C25 amended: the same, except that reset() puts the all-zero session back
C25_LastStatisticsUnlessReset ==
    /\ getLastStatistics(World) = ZeroStatistics
    /\ [][/\ ac'.lastStatistics # ac.lastStatistics =>
               \/ StopStep
               \/ /\ call'.name = "reset"
                  /\ Reset
                  /\ ac'.lastStatistics = ZeroStatistics
          /\ (HasKind(call'.out, "stop") /\ StopStep) => SessionWritten
         ]_vars

\* C25 witness: the second alarm has started and escalated, and
\* getLastStatistics() still returns the first session, stopped by the button.
C25_Witness ==
    /\ sessions = 2
    /\ call.name = "update"
    /\ ac.currentState = "ALARM_ALERT"
    /\ getLastStatistics(World).stopSource = "STOP_SILENCE_BUTTON"
    /\ getLastStatistics(World).stopTime <= ac.alarmStartTime
    /\ getLastStatistics(World).duration = 30

\* C25 witness before the first stop: an alarm in Emergency, all-zero session
C25_WitnessZero ==
    /\ sessions = 1
    /\ ac.currentState = "ALARM_EMERGENCY"
    /\ getLastStatistics(World) = ZeroStatistics

\* in loop() the call next is made right after the call prev
Follows(next, prev) ==
    (call'.name = next /\ call.name # next) => call.name = prev

C27_GetDuration ==
    \A later \in {0, 1500} :
        getDuration(World, now + later)
          = IF ac.currentState \in ActiveStates
            THEN (now + later - ac.alarmStartTime) \div 1000
            ELSE 0

\* C27 for what the code does: the seconds since the last start() at a clock
\* value other than 0, whether or not that alarm is still active; 0 before
\* the first start(), after reset(), and for an alarm started at clock value 0.
C27_GetDurationSinceLastStart ==
    \A later \in {0, 1500} :
        getDuration(World, now + later)
          = IF ac.alarmStartTime # 0
            THEN (now + later - ac.alarmStartTime) \div 1000
            ELSE 0

\* C27 witness: the alarm was stopped after 30 s, the controller is Idle and
\* getDuration() returns 30, and 31 a little later.
C27_Witness ==
    /\ call.name = "stop"
    /\ call.ret
    /\ ac.currentState = "ALARM_IDLE"
    /\ getDuration(World, now) = 30
    /\ getDuration(World, now + 1500) = 31

\* C27 witness of an active alarm: 60 s after start()
C27_WitnessActive ==
    /\ ac.currentState = "ALARM_ALERT"
    /\ ac.alarmStartTime = 1000
    /\ getDuration(World, now) = 60

\* ---------------------------------------------------------------------
\* C28: getTimeRemainingInStage() returns 0 whenever the controller is
\* not active and whenever there is no next stage (Emergency); in
\* Triggered, Warning and Alert it returns the stage's duration in whole
\* seconds minus the whole seconds elapsed in the stage, floored at 0,
\* and so never more than the stage's configured duration in seconds.
\* The getter is read at the clock value of the state and 1500, 2999 and
\* 29001 ms later.
C28_TimeRemaining ==
    \A later \in {0, 1500, 2999, 29001} :
        LET remaining == getTimeRemainingInStage(World, now + later)
            elapsed == Elapsed32Seconds(now + later, ac.stageStartTime)
            seconds == StageDuration(ac.currentState) \div 1000
        IN  /\ remaining
                 = IF ac.currentState \in {"ALARM_TRIGGERED", "ALARM_WARNING", "ALARM_ALERT"}
                   THEN IF elapsed >= seconds THEN 0 ELSE seconds - elapsed
                   ELSE 0
            /\ remaining <= seconds

\* C28 without its Emergency case: outside Emergency the getter returns
\* what the claim states; in Emergency it returns 4294967 (the "no limit"
\* duration in seconds) minus the seconds elapsed in the stage.
C28_TimeRemainingBeforeEmergency ==
    \A later \in {0, 1500, 2999, 29001} :
        LET remaining == getTimeRemainingInStage(World, now + later)
            elapsed == Elapsed32Seconds(now + later, ac.stageStartTime)
            seconds == StageDuration(ac.currentState) \div 1000
        IN  IF ac.currentState = "ALARM_EMERGENCY"
            THEN remaining = 4294967 - elapsed /\ remaining > 0
            ELSE /\ remaining
                      = IF ac.currentState \in {"ALARM_TRIGGERED", "ALARM_WARNING", "ALARM_ALERT"}
                        THEN IF elapsed >= seconds THEN 0 ELSE seconds - elapsed
                        ELSE 0
                 /\ remaining <= seconds

\* Emergency has just been entered and the getter answers 4294967.
C28_Witness ==
    /\ ac.currentState = "ALARM_EMERGENCY"
    /\ ac.stageStartTime = now
    /\ getTimeRemainingInStage(World, now) = 4294967

\* Warning has just been entered: 30 s remain, 29 s remain 1500 ms later
\* and 1 s remains 29001 ms later.
C28_WitnessWarning ==
    /\ ac.currentState = "ALARM_WARNING"
    /\ getTimeRemainingInStage(World, now) = 30
    /\ getTimeRemainingInStage(World, now + 1500) = 29
    /\ getTimeRemainingInStage(World, now + 29001) = 1

\* a step that ends an alarm: from an active state to a non-active one
EndsAlarm ==
    /\ ac.currentState \in ActiveStates
    /\ ac'.currentState \notin ActiveStates

\* what accompanies the end of an alarm inside stop(): both actuators
\* silenced, the session record written, the indicator off and not blinking
StoppedProperly ==
    /\ StopStep
    /\ hw'.smallDuty = 0 /\ hw'.largeDuty = 0
    /\ SessionWritten
    /\ hw'.alarmLedPin = FALSE /\ ~hw'.alarmLED.enabled

\* C29: every change of the controller from an active state to a
\* non-active state happens inside a successful stop() (called directly or
\* forced by update()), and so comes with silenced actuators, a freshly
\* written session record and the indicator switched off; no other
\* operation ends an alarm.
C29_EndOnlyByStop ==
    [][EndsAlarm => StoppedProperly]_vars

\* C29 with reset() named as the second operation that ends an alarm: it
\* silences the actuators as well, but writes no session record (it puts
\* the all-zero one back); start(), testAlarm(), an update() that forces no
\* stop, the circuit check and the passing of time end no alarm.
C29_EndOnlyByStopOrReset ==
    [][EndsAlarm =>
         \/ StoppedProperly
         \/ /\ call'.name = "reset"
            /\ Reset
            /\ ~HasKind(call'.out, "stop")
            /\ hw'.smallDuty = 0 /\ hw'.largeDuty = 0
            /\ ac'.lastStatistics = ZeroStatistics]_vars

\* an update() has ended the alarm through stop() on the safety timeout
C29_Witness ==
    /\ call.name = "update"
    /\ HasKind(call.out, "stop")
    /\ ac.currentState = "ALARM_IDLE"
    /\ ac.lastStatistics.stopSource = "STOP_SAFETY_TIMEOUT"
    /\ ac.lastStatistics.stopTime = now
    /\ Silent
    /\ hw.alarmLedPin = FALSE /\ ~hw.alarmLED.enabled

\* reset() has ended an alarm that was in Emergency with the loud actuator
\* on: no stop() ran, no session record was written
C29_WitnessReset ==
    /\ call.name = "reset"
    /\ ~HasKind(call.out, "stop")
    /\ Has(call.out, "largeBuzzer", 0)
    /\ ac.currentState = "ALARM_IDLE"
    /\ ac.lastStatistics = ZeroStatistics
    /\ hw.alarmLED.interval = 200
    /\ Silent

\* an update() that runs the Warning handler
WarningUpdate == call'.name = "update" /\ ac.currentState = "ALARM_WARNING"

\* the quiet actuator is switched over at the first update() at least half
\* a second after it was last switched, and not before; since is the clock
\* value of the last switch
PulseFollows(since) ==
    LET due == now' - since >= 500
    IN  /\ hw'.smallDuty = IF ~due THEN hw.smallDuty
                           ELSE IF hw.smallDuty = BUZZER_ON THEN BUZZER_OFF
                           ELSE BUZZER_ON
        /\ hw'.lastPulseToggle = IF due THEN now' ELSE since

\* the pattern begins: the quiet actuator is switched on
PulseBegins == hw'.smallDuty = BUZZER_ON /\ hw'.lastPulseToggle = now'

\* the Warning handler moves to Alert exactly when the stage timer says
\* so, whatever the pulse timer holds and whatever pulseSmallBuzzer()
\* returns (complete for a start 30 s ago, not complete otherwise)
StageTimerDecides ==
    /\ ~HasKind(call'.out, "stop") =>
         ac'.currentState = IF now' - ac.stageStartTime >= 30000
                            THEN "ALARM_ALERT" ELSE "ALARM_WARNING"
    /\ \A began \in {0, now' - 30000, now' - 250}, on \in BOOLEAN :
         update([World EXCEPT !.hw.pulseStartTime = began,
                              !.hw.pulseState = on], now', TRUE).ac = ac'

\* C30: during Warning the quiet actuator follows the 500 ms on / 500 ms
\* off pattern of the driver's own timer for the whole stage: the first
\* update() of the stage switches it on, every later one switches it over
\* when half a second has passed since the last switch; and the move from
\* Warning to Alert depends on the stage timer only, never on the value
\* pulseSmallBuzzer() returns.
C30_WarningPulse ==
    [][WarningUpdate =>
         /\ StageTimerDecides
         /\ ac'.currentState = "ALARM_WARNING" =>
              IF call.name = "update" /\ Has(call.out, "state", "ALARM_WARNING")
              THEN PulseBegins
              ELSE PulseFollows(hw.lastPulseToggle)]_vars

\* C30 for a pulse timer that is not left over from an earlier stage (it
\* is unset, or was set in this stage); the stage timer decides in every
\* case.
C30_WarningPulseOfThisStage ==
    [][WarningUpdate =>
         /\ StageTimerDecides
         /\ (/\ ac'.currentState = "ALARM_WARNING"
             /\ hw.pulseStartTime = 0 \/ hw.pulseStartTime > ac.stageStartTime) =>
              IF hw.pulseStartTime = 0
              THEN PulseBegins
              ELSE PulseFollows(hw.lastPulseToggle)]_vars

\* second alarm: the pulse timer left over from the first one has run out
\* inside Warning; the actuator was silenced and the stage goes on
C30_Witness ==
    /\ sessions = 2
    /\ call.name = "update"
    /\ ~HasKind(call.out, "state")
    /\ ac.currentState = "ALARM_WARNING"
    /\ now - ac.stageStartTime > 250
    /\ hw.pulseStartTime = 0
    /\ hw.smallDuty = 0

\* first alarm: Warning has moved on to Alert after 30 s of the stage
\* timer while the pattern, begun 250 ms into the stage, was not complete
C30_WitnessNotComplete ==
    /\ sessions = 1
    /\ call.name = "update"
    /\ Has(call.out, "state", "ALARM_ALERT")
    /\ now - ac.alarmStartTime = 33000
    /\ hw.pulseStartTime = ac.alarmStartTime + 3250

\* first alarm: the actuator has been switched off half a second after the
\* pattern began
C30_WitnessPattern ==
    /\ sessions = 1
    /\ call.name = "update"
    /\ ac.currentState = "ALARM_WARNING"
    /\ Has(call.out, "smallBuzzer", BUZZER_OFF)
    /\ now = hw.pulseStartTime + 500

\* C31: while blinking is enabled with period P, one updateLEDs() toggles
\* the phase at most once, and only if at least P ms have passed since the
\* last toggle (or since blinking was commanded); after a pause of several
\* periods the poll toggles exactly once and the period restarts from that
\* poll; a disabled indicator is never toggled by updateLEDs().
C31_Blink ==
    [][call'.name = "updateLEDs" =>
         LET led == hw.alarmLED
             due == led.enabled /\ now' - led.lastToggle >= led.interval
         IN  /\ hw'.alarmLED.currentState
                  = IF due THEN ~led.currentState ELSE led.currentState
             /\ hw'.alarmLED.lastToggle = IF due THEN now' ELSE led.lastToggle
             /\ hw'.alarmLedPin
                  = IF due THEN ~led.currentState ELSE hw.alarmLedPin
             /\ CountKind(call'.out, "alarmLedPin") = IF due THEN 1 ELSE 0
             /\ hw'.alarmLED.enabled = led.enabled
             /\ hw'.alarmLED.interval = led.interval]_vars

\* a poll 1300 ms after the last one, blinking at 200 ms: one toggle, the
\* period restarts at the poll
C31_Witness ==
    /\ call.name = "updateLEDs" /\ call.arg = "1300"
    /\ hw.alarmLED.enabled
    /\ hw.alarmLED.interval = LED_BLINK_FAST
    /\ call.out = <<Effect("alarmLedPin", hw.alarmLED.currentState)>>
    /\ hw.alarmLED.lastToggle = now

\* a poll 100 ms after a toggle, blinking at 1000 ms: no toggle
C31_WitnessNotDue ==
    /\ call.name = "updateLEDs" /\ call.arg = "100"
    /\ hw.alarmLED.enabled
    /\ hw.alarmLED.interval = LED_BLINK_SLOW
    /\ hw.alarmLED.lastToggle = now - 100
    /\ call.out = <<>>

\* a poll of a disabled indicator long after its last toggle: no toggle
C31_WitnessDisabled ==
    /\ call.name = "updateLEDs"
    /\ ~hw.alarmLED.enabled
    /\ hw.alarmLED.interval = LED_BLINK_FAST
    /\ now - hw.alarmLED.lastToggle >= 1300
    /\ hw.alarmLedPin
    /\ call.out = <<>>

\* C32: with the hardware checks switched off, no update() runs the health
\* check, reports a hardware fault or stops the alarm with
\* STOP_HARDWARE_ERROR, whatever the stored health of the two circuits and
\* however long after the last check; the only stop an update() can force
\* is the one on the safety timeout.  update() is read after each pause of
\* the clock and after the safety timeout.
C32_ChecksDisabled ==
    (isActive(World) /\ ~ac.hardwareChecksEnabled) =>
        \A e \in ConfigSteps \cup {0, ALARM_SAFETY_TIMEOUT_MS}, online \in BOOLEAN :
            LET w == update(World, now + e, online)
            IN  /\ ~HasKind(w.out, "check")
                /\ ~Has(w.out, "stop", "STOP_HARDWARE_ERROR")
                /\ \A i \in DOMAIN w.out :
                     /\ w.out[i][1] = "stop" => w.out[i][2] = "STOP_SAFETY_TIMEOUT"
                     /\ w.out[i][1] = "notify" => w.out[i][2] \notin HardwareMessages
                /\ w.ac.lastHardwareError = ac.lastHardwareError
                /\ w.ac.lastCheck = ac.lastCheck
                /\ w.ac.currentState = "ALARM_IDLE" =>
                     w.ac.lastStatistics.stopSource = "STOP_SAFETY_TIMEOUT"

\* checks off, the quiet circuit found broken, a check long due: the
\* update() in Warning has left the alarm running, and an update() after
\* the safety timeout stops it
C32_Witness ==
    /\ call.name = "update"
    /\ ~ac.hardwareChecksEnabled
    /\ hw.state.smallBuzzer = "HW_STATUS_FAILED"
    /\ ac.currentState = "ALARM_WARNING"
    /\ now - ac.lastCheck >= HW_CHECK_INTERVAL_MS
    /\ ~HasKind(call.out, "check") /\ ~HasKind(call.out, "stop")
    /\ Has(update(World, now + ALARM_SAFETY_TIMEOUT_MS, TRUE).out,
           "stop", "STOP_SAFETY_TIMEOUT")

\* what reset() leaves behind apart from the indicator: state Idle, both
\* actuators 0, the all-zero session record, no stored hardware error, the
\* alarm and stage start times cleared
ResetClears ==
    /\ ac'.currentState = "ALARM_IDLE"
    /\ ac'.previousState = "ALARM_IDLE"
    /\ hw'.smallDuty = 0 /\ hw'.largeDuty = 0
    /\ ac'.lastStatistics = ZeroStatistics
    /\ ac'.lastHardwareError = ""
    /\ ac'.alarmStartTime = 0
    /\ ac'.stageStartTime = 0

\* C33: reset(), called in any state, leaves the controller in its initial
\* state: Idle, both actuators 0, statistics all zero, stored hardware
\* error empty, alarm start time cleared, and the alarm indicator off and
\* not blinking.
C33_Reset ==
    [][call'.name = "reset" =>
         /\ ResetClears
         /\ hw'.alarmLedPin = FALSE
         /\ ~hw'.alarmLED.enabled]_vars

\* C33 without the indicator: reset() clears everything else the claim
\* lists and leaves the indicator (pin and blink setting) exactly as it was.
C33_ResetKeepsIndicator ==
    [][call'.name = "reset" =>
         /\ ResetClears
         /\ hw'.alarmLedPin = hw.alarmLedPin
         /\ hw'.alarmLED = hw.alarmLED
         /\ call'.out = <<Effect("smallBuzzer", 0), Effect("largeBuzzer", 0)>>]_vars

\* reset() during Alert: the controller is Idle with everything cleared
\* while the indicator goes on blinking at the Alert period
C33_Witness ==
    /\ call.name = "reset"
    /\ ac.currentState = "ALARM_IDLE"
    /\ ac.alarmStartTime = 0
    /\ ac.lastStatistics = ZeroStatistics
    /\ Silent
    /\ hw.alarmLED.enabled
    /\ hw.alarmLED.interval = LED_BLINK_MEDIUM

\* reset() in Idle after a stopped alarm: the indicator was off and stays off
C33_WitnessIdle ==
    /\ call.name = "reset"
    /\ sessions = 1
    /\ ac.currentState = "ALARM_IDLE"
    /\ ac.lastStatistics = ZeroStatistics
    /\ hw.alarmLedPin = FALSE /\ ~hw.alarmLED.enabled
    /\ hw.pulseStartTime # 0

\* an update() at which the periodic check is due and would fail (both
\* circuits Failed, or the loud one Failed in Emergency)
FailingCheckDue ==
    /\ call'.name = "update"
    /\ ac.currentState \in ActiveStates
    /\ ac.hardwareChecksEnabled
    /\ now' - ac.lastCheck >= HW_CHECK_INTERVAL_MS
    /\ hw.state.largeBuzzer = "HW_STATUS_FAILED"
    /\ hw.state.smallBuzzer = "HW_STATUS_FAILED" \/ ac.currentState = "ALARM_EMERGENCY"

\* the update() stopped the alarm on the safety timeout and ran no check
TimeoutStopOnly ==
    /\ Has(call'.out, "stop", "STOP_SAFETY_TIMEOUT")
    /\ ~HasKind(call'.out, "check")
    /\ \A i \in DOMAIN call'.out :
         call'.out[i][1] = "notify" => call'.out[i][2] \notin HardwareMessages
    /\ ac'.lastStatistics.stopSource = "STOP_SAFETY_TIMEOUT"
    /\ ~ac'.lastStatistics.hardwareIssueDetected
    /\ ac'.lastHardwareError = ac.lastHardwareError
    /\ ac'.lastCheck = ac.lastCheck

\* an update() calls stop() at most once and writes the session record in
\* that stop() only, and the call that writes it ends the session
OneStopPerUpdate ==
    /\ CountKind(call'.out, "stop") <= 1
    /\ CountKind(call'.out, "statistics") = CountKind(call'.out, "stop")
    /\ HasKind(call'.out, "stop") => EndsAlarm

\* C34: a single update() calls stop() at most once: when the safety
\* timeout (300 s since the alarm started) and a failing hardware check are
\* both due in the same update(), the alarm is stopped with
\* STOP_SAFETY_TIMEOUT, the check is not run in that update(), and the
\* session record is written exactly once.
C34_StopOnce ==
    [][(call'.name = "update" /\ Update) =>
         /\ OneStopPerUpdate
         /\ (FailingCheckDue /\ now' - ac.alarmStartTime >= ALARM_SAFETY_TIMEOUT_MS)
              => TimeoutStopOnly /\ CountKind(call'.out, "statistics") = 1]_vars

\* C34 for an alarm that did not start at clock value 0
C34_StopOnceStartNotZero ==
    [][(call'.name = "update" /\ Update) =>
         /\ OneStopPerUpdate
         /\ (/\ FailingCheckDue
             /\ ac.alarmStartTime # 0
             /\ now' - ac.alarmStartTime >= ALARM_SAFETY_TIMEOUT_MS)
              => TimeoutStopOnly /\ CountKind(call'.out, "statistics") = 1]_vars

\* an alarm started at clock value 0, both circuits Failed: the update()
\* 300 s later ran the check and stopped the alarm with STOP_HARDWARE_ERROR
C34_Witness ==
    /\ call.name = "update"
    /\ Has(call.out, "stop", "STOP_HARDWARE_ERROR")
    /\ HasKind(call.out, "check")
    /\ ac.lastStatistics.startTime = 0
    /\ ac.lastStatistics.stopTime >= ALARM_SAFETY_TIMEOUT_MS
    /\ ac.currentState = "ALARM_IDLE"

\* an alarm started at clock value 1000, both circuits Failed, a check long
\* due: the update() 300 s later stopped it on the timeout without a check
C34_WitnessTimeout ==
    /\ call.name = "update"
    /\ Has(call.out, "stop", "STOP_SAFETY_TIMEOUT")
    /\ CountKind(call.out, "stop") = 1
    /\ ~HasKind(call.out, "check")
    /\ ac.lastStatistics.startTime = 1000
    /\ now - ac.lastCheck >= HW_CHECK_INTERVAL_MS
    /\ hw.state.smallBuzzer = "HW_STATUS_FAILED"
    /\ hw.state.largeBuzzer = "HW_STATUS_FAILED"
    /\ ac.lastHardwareError = ""

\* C35: while the state is Emergency the quiet actuator's output is 0:
\* only the loud actuator sounds in Emergency.
C35_EmergencyQuietOff ==
    ac.currentState = "ALARM_EMERGENCY" => hw.smallDuty = 0

\* what the outputs are in Emergency: the quiet actuator is still at the
\* full output Alert gave it, and the loud one is at full output from the
\* first update() in Emergency on (it is 0 until then)
C35_EmergencyBothOn ==
    /\ [](ac.currentState = "ALARM_EMERGENCY" =>
            /\ ac.previousState = "ALARM_ALERT"
            /\ hw.smallDuty = BUZZER_ON
            /\ hw.largeDuty \in {0, BUZZER_ON})
    /\ [][(/\ call'.name = "update" /\ Update
           /\ ac.currentState = "ALARM_EMERGENCY"
           /\ ac'.currentState = "ALARM_EMERGENCY")
          => /\ hw'.largeDuty = BUZZER_ON
             /\ hw'.smallDuty = BUZZER_ON
             /\ ~HasKind(call'.out, "smallBuzzer")]_vars

\* an update() in Emergency has driven the loud actuator and the quiet one
\* is sounding as well
C35_Witness ==
    /\ ac.currentState = "ALARM_EMERGENCY"
    /\ call.name = "update"
    /\ Has(call.out, "largeBuzzer", BUZZER_ON)
    /\ hw.largeDuty = BUZZER_ON
    /\ hw.smallDuty = BUZZER_ON

\* the first update() of a Warning stage: the call before it was the
\* update() that entered Warning
FirstWarningUpdate ==
    /\ WarningUpdate
    /\ call.name = "update"
    /\ Has(call.out, "state", "ALARM_WARNING")

\* a fresh pattern: the quiet actuator on, the pattern's start time and
\* last-toggle time at this tick
FreshPulse ==
    /\ hw'.smallDuty = BUZZER_ON
    /\ hw'.pulseState
    /\ hw'.pulseStartTime = now'
    /\ hw'.lastPulseToggle = now'

\* C36: in every session, the first update() in Warning starts a fresh
\* pulse pattern: the quiet actuator is switched on and the pattern's start
\* time and last-toggle time are set to that tick; no pulse timing state of
\* an earlier session carries over.
C36_FreshPulse ==
    [][FirstWarningUpdate => FreshPulse]_vars

\* C36 for a pulse timer that is unset when the stage begins, as it is in
\* the first session after power-up; stop() leaves the three pulse fields
\* as they are, and so does the update() that moves from Warning to Alert
\* before the pattern has run its 30 s.
C36_FreshPulseWhenUnset ==
    /\ [][(FirstWarningUpdate /\ hw.pulseStartTime = 0) => FreshPulse]_vars
    /\ [][(FirstWarningUpdate /\ sessions = 1) => hw.pulseStartTime = 0]_vars
    /\ [][(call'.name = "stop" /\ PulseStop) =>
            /\ hw'.pulseStartTime = hw.pulseStartTime
            /\ hw'.lastPulseToggle = hw.lastPulseToggle
            /\ hw'.pulseState = hw.pulseState]_vars
    /\ [][(/\ WarningUpdate
           /\ ac'.currentState = "ALARM_ALERT"
           /\ hw.pulseStartTime # 0
           /\ now' - hw.pulseStartTime < ALARM_WARNING_DURATION_MS)
          => hw'.pulseStartTime = hw.pulseStartTime]_vars

\* the first update() in Warning of a second alarm: the pattern's start
\* time is the one of the first alarm and the quiet actuator is off
C36_Witness ==
    /\ sessions = 2
    /\ call.name = "update"
    /\ ac.currentState = "ALARM_WARNING"
    /\ now - ac.stageStartTime = 250
    /\ hw.pulseStartTime # 0
    /\ hw.pulseStartTime < ac.alarmStartTime
    /\ hw.smallDuty = 0

\* the first update() in Warning of the first alarm: a fresh pattern
C36_WitnessFresh ==
    /\ sessions = 1
    /\ call.name = "update"
    /\ ac.currentState = "ALARM_WARNING"
    /\ now - ac.stageStartTime = 250
    /\ hw.pulseStartTime = now
    /\ hw.lastPulseToggle = now
    /\ hw.smallDuty = BUZZER_ON

\* C37: the health check update() performs only reads the stored health of
\* the two circuits: it changes nothing of the hardware (neither status,
\* neither actuator output, no indicator) and does not change the stage,
\* so a second check right after it, in the same stage and with the stored
\* statuses unchanged, gives the same verdict; and an update() that ran a
\* check leaves both statuses as they were.
C37_CheckOnlyReads ==
    /\ [](isActive(World) =>
            \A online \in BOOLEAN, again \in BOOLEAN :
                LET first == checkHardwareHealth(World, online)
                    second == checkHardwareHealth([first EXCEPT !.out = <<>>], again)
                IN  /\ first.hw = hw
                    /\ first.ac.currentState = ac.currentState
                    /\ \A i \in DOMAIN first.out : first.out[i][1] \in {"notify", "sendMessage"}
                    /\ second.ret = first.ret
                    /\ second.hw = hw)
    /\ [][(call'.name = "update" /\ HasKind(call'.out, "check") /\ Update)
          => hw'.state = hw.state]_vars

\* an update() in Warning has run a check that passed with the loud circuit
\* Failed; the check repeated in this state passes again
C37_Witness ==
    /\ call.name = "update"
    /\ HasKind(call.out, "check")
    /\ ~HasKind(call.out, "stop")
    /\ ac.currentState = "ALARM_WARNING"
    /\ ac.lastCheck = now
    /\ hw.state.largeBuzzer = "HW_STATUS_FAILED"
    /\ hw.state.smallBuzzer = "HW_STATUS_OK"
    /\ checkHardwareHealth(World, TRUE).ret

\* Alert with the quiet circuit Failed: the check fails, and fails again
C37_WitnessFailing ==
    /\ ac.currentState = "ALARM_ALERT"
    /\ hw.state.smallBuzzer = "HW_STATUS_FAILED"
    /\ ~checkHardwareHealth(World, TRUE).ret
    /\ ~checkHardwareHealth(checkHardwareHealth(World, TRUE), TRUE).ret

\* C38: whenever the controller is Idle between calls after at least one
\* alarm has been started, the alarm indicator is off and its blinking is
\* disabled.
C38_IdleIndicatorOff ==
    (ac.currentState = "ALARM_IDLE" /\ sessions >= 1) =>
        hw.alarmLedPin = FALSE /\ ~hw.alarmLED.enabled

\* C38 step by step, apart from reset(): every call other than reset()
\* that takes the controller from an active state to Idle leaves the
\* indicator off and not blinking, and no call made in Idle changes the
\* indicator; a reset() leaves the indicator as it was.
C38_IdleIndicatorOffUnlessReset ==
    [][ac'.currentState = "ALARM_IDLE" =>
         IF call'.name = "reset" /\ Reset
         THEN hw'.alarmLedPin = hw.alarmLedPin /\ hw'.alarmLED = hw.alarmLED
         ELSE IF ac.currentState \in ActiveStates
         THEN hw'.alarmLedPin = FALSE /\ ~hw'.alarmLED.enabled
         ELSE hw'.alarmLedPin = hw.alarmLedPin /\ hw'.alarmLED = hw.alarmLED]_vars

\* Idle after start(), reset() and a later update(): the indicator is
\* still solid on
C38_Witness ==
    /\ call.name = "update"
    /\ call.out = <<>>
    /\ sessions = 1
    /\ ac.currentState = "ALARM_IDLE"
    /\ ac.lastStatistics = ZeroStatistics
    /\ hw.alarmLedPin
    /\ ~hw.alarmLED.enabled

\* Idle after an alarm that reached Emergency and was stopped by its
\* caller: the indicator is off and not blinking
C38_WitnessStopped ==
    /\ call.name = "stop" /\ call.ret
    /\ ac.currentState = "ALARM_IDLE"
    /\ ac.lastStatistics.maxStageReached = "ALARM_EMERGENCY"
    /\ hw.alarmLedPin = FALSE
    /\ ~hw.alarmLED.enabled
    /\ hw.alarmLED.interval = LED_BLINK_FAST

\* the handleButtons() of an iteration of loop() during an alarm that is
\* still active when it returns (the silence button and the factory reset
\* end the alarm before they wait)
ButtonsDuringAlarm ==
    /\ call.name = "updateLEDs"
    /\ call'.name = "handleButtons"
    /\ isActive(World)
    /\ ac'.currentState \in ActiveStates

\* C39: while the alarm is active, every iteration of loop() reaches
\* alarmController.update() without waiting on button state: handleButtons()
\* returns at the clock value at which it was called, whatever the
\* buttons read, the TEST button held during an alarm included.
C39_UpdateNotPostponed ==
    [][ButtonsDuringAlarm => now' = now]_vars

\* C39 apart from the TEST button: during an alarm handleButtons() takes
\* no time unless the TEST button is pressed; if it is, the call returns
\* only after the button has been released (50 ms per poll of the release
\* loop), with the controller exactly as it was.
C39_UpdatePostponedByTestOnly ==
    [][ButtonsDuringAlarm =>
         /\ ac' = ac
         /\ IF hw.state.buttonTest
            THEN /\ now' - now >= 150
                 /\ (now' - now) % 50 = 0
                 /\ ~hw'.state.buttonTest
            ELSE now' = now]_vars

\* the TEST button held for two seconds during Triggered: handleButtons()
\* has returned, the stage has been over for more than two seconds and
\* update() has not run yet
C39_Witness ==
    /\ call.name = "handleButtons"
    /\ ac.currentState = "ALARM_TRIGGERED"
    /\ now - ac.stageStartTime >= ALARM_TRIGGERED_DELAY_MS + 2000
    /\ hw.testButton.lastChange > ac.stageStartTime
    /\ ~hw.state.buttonTest

\* no button pressed during Triggered: handleButtons() has returned at
\* once, at the clock value at which the stage is over
C39_WitnessNoButton ==
    /\ call.name = "handleButtons"
    /\ ac.currentState = "ALARM_TRIGGERED"
    /\ now - ac.stageStartTime = ALARM_TRIGGERED_DELAY_MS
    /\ ~hw.testButton.lastReading
    /\ ~hw.silenceButton.lastReading

====
